---------------------------- MODULE Spec2Model ----------------------------
(***************************************************************************)
(* A model of paratemp/geometries.py (the Vector value type, the XYZ      *)
(* geometry object and the COM geometry object), of the Simulation step   *)
(* methods of paratemp/sim_setup/simulation.py and of the solvent-count,  *)
(* PLUMED-input and submission-script functions of                         *)
(* paratemp/sim_setup/sim_setup.py.                                        *)
(*                                                                         *)
(* Text is modelled at the level of characters: a line is a sequence of   *)
(* one-character strings (its "\n" included), a file a sequence of lines. *)
(* Floats are modelled as exact decimals counted in units of 10^-5        *)
(* (Unit), plus an array-wide NaN flag; binary rounding is not modelled.  *)
(*                                                                         *)
(* The specifications:                                                     *)
(*   Spec        two geometries read from files, then any calls of their  *)
(*               methods and accessors                                     *)
(*   SpecVector  one Vector(...) call, for every argument tuple            *)
(*   SpecParse   one XYZ(path) call, for every file                        *)
(*   SpecWrite   two geometries, calls that change them, and write        *)
(*   SpecCOM     one COM(path) call, a parser line at a time, then write  *)
(*   SpecCOMOps  two COM geometries, the inherited calls and accessors    *)
(*   SpecShare   two geometries with the identities of their coords lists *)
(*   SpecSim     one Simulation and calls of its step methods             *)
(*   SpecTop     one topology file, get_solv_count_top and                *)
(*               set_solv_count_top                                        *)
(*   SpecPlumed  one PLUMED template and update_plumed_input              *)
(*   SpecSub     one script path and make_gromacs_sub_script               *)
(***************************************************************************)
EXTENDS Integers, Sequences, FiniteSets, TLC

VARIABLES fs, obj, last, nOps, frame

vars == <<fs, obj, last, nOps, frame>>

(***************************************************************************)
(* Bounds of the model.                                                    *)
(***************************************************************************)
\* Mutating calls per behaviour.
MaxOps == 2
\* rotate_to_x_axis_on is explored on coordinates of at most this many axes.
MaxRotRank == 2
\* Arguments per Vector(...) call.
MaxArgs == 4
\* Data lines (the lines after the two header lines) per parsed file.
MaxDataLines == 2

\* One float unit: 1.0 is Unit, so 1e-5 is 1.
Unit == 100000
\* Fractional decimal digits kept by Unit.
FracDigits == 5

(***************************************************************************)
(* Python values that reach the model.                                     *)
(***************************************************************************)
None == <<>>
Some(v) == <<v>>

PyNum(v) == <<"num", v>>
PySeq(s) == <<"seq", s>>
IsNum(a) == a[1] = "num"
IsSeq(a) == a[1] = "seq"

NoExc == [type |-> "", msg |-> "", arg |-> <<>>]
Exc(t, m, a) == [type |-> t, msg |-> m, arg |-> a]

Max(a, b) == IF a >= b THEN a ELSE b

\* Python's "x = v" followed by the statements Body(x): v is evaluated once.
With(v, Body(_)) == CHOOSE r \in {Body(x) : x \in {v}} : TRUE
Range(s) == {s[i] : i \in 1..Len(s)}

(***************************************************************************)
(* Characters.                                                             *)
(***************************************************************************)
Digits == <<"0", "1", "2", "3", "4", "5", "6", "7", "8", "9">>
DigitSet == Range(Digits)
DigitVal(c) == (CHOOSE i \in 1..10 : Digits[i] = c) - 1
LowerSet == {"a", "b", "c", "d", "e", "f", "g", "h", "i", "j", "k", "l", "m",
             "n", "o", "p", "q", "r", "s", "t", "u", "v", "w", "x", "y", "z"}
UpperSet == {"A", "B", "C", "D", "E", "F", "G", "H", "I", "J", "K", "L", "M",
             "N", "O", "P", "Q", "R", "S", "T", "U", "V", "W", "X", "Y", "Z"}
LetterSet == LowerSet \cup UpperSet
SpaceSet == {" ", "\t", "\n", "\r", "\f"}

\* Number of consecutive characters of line, from position p on, that are in S.
RECURSIVE RunLen(_, _, _)
RunLen(line, p, S) ==
    IF p > Len(line) \/ line[p] \notin S THEN 0 ELSE 1 + RunLen(line, p + 1, S)

HasPrefixAt(line, p, pat) ==
    /\ p + Len(pat) - 1 <= Len(line)
    /\ \A i \in 1..Len(pat) : line[p + i - 1] = pat[i]

\* pat in line
Contains(line, pat) == \E p \in 1..Len(line) : HasPrefixAt(line, p, pat)

\* str.split(): the maximal runs of non-whitespace characters, in order.
RECURSIVE SplitFrom(_, _)
SplitFrom(line, p) ==
    IF p > Len(line) THEN <<>>
    ELSE IF line[p] \in SpaceSet THEN SplitFrom(line, p + 1)
    ELSE With(RunLen(line, p, Range(line) \ SpaceSet), LAMBDA n :
              <<SubSeq(line, p, p + n - 1)>> \o SplitFrom(line, p + n))

Split(line) == SplitFrom(line, 1)

\* line.strip() == ""
IsBlank(line) == \A i \in 1..Len(line) : line[i] \in SpaceSet

(***************************************************************************)
(* float(token), for the decimal tokens [sign] digits [. digits] and      *)
(* [sign] . digits, and for [sign] nan in any letter case; every other    *)
(* token is a ValueError.  Exponents, "inf" and digit-group underscores,  *)
(* which Python also reads, are not in any input the model draws.  The    *)
(* value of a decimal is exact, in units of 10^-5; digits past the fifth  *)
(* fractional one are dropped.                                             *)
(***************************************************************************)
RECURSIVE DigitsVal(_, _, _)
DigitsVal(tok, p, n) ==
    IF n = 0 THEN 0 ELSE DigitsVal(tok, p, n - 1) * 10 + DigitVal(tok[p + n - 1])

RECURSIVE Pow10(_)
Pow10(n) == IF n = 0 THEN 1 ELSE 10 * Pow10(n - 1)

\* The lengths of the parts of tok: sign, integer digits, ".", fraction digits.
FloatParts(tok) ==
    With(IF Len(tok) >= 1 /\ tok[1] \in {"-", "+"} THEN 1 ELSE 0, LAMBDA s :
    With(RunLen(tok, s + 1, DigitSet), LAMBDA d1 :
    With(IF s + d1 + 1 <= Len(tok) /\ tok[s + d1 + 1] = "." THEN 1 ELSE 0, LAMBDA dot :
    With(IF dot = 1 THEN RunLen(tok, s + d1 + 2, DigitSet) ELSE 0, LAMBDA d2 :
         [s |-> s, d1 |-> d1, d2 |-> d2, used |-> s + d1 + dot + d2]))))

\* float(tok) is NaN.
IsNaNTok(tok) ==
    With(IF Len(tok) >= 1 /\ tok[1] \in {"-", "+"} THEN 1 ELSE 0, LAMBDA s :
        /\ Len(tok) = s + 3
        /\ tok[s + 1] \in {"n", "N"}
        /\ tok[s + 2] \in {"a", "A"}
        /\ tok[s + 3] \in {"n", "N"})

\* float(tok) does not raise.
FloatOK(tok) ==
    \/ IsNaNTok(tok)
    \/ With(FloatParts(tok), LAMBDA p : p.used = Len(tok) /\ p.d1 + p.d2 >= 1)

FloatVal(tok) ==
    With(FloatParts(tok), LAMBDA p :
    With(IF p.d2 > FracDigits THEN FracDigits ELSE p.d2, LAMBDA k :
    With(DigitsVal(tok, p.s + 1, p.d1) * Unit
           + DigitsVal(tok, p.s + p.d1 + 2, k) * Pow10(FracDigits - k), LAMBDA mag :
         IF p.s = 1 /\ tok[1] = "-" THEN 0 - mag ELSE mag)))

(***************************************************************************)
(* Array values.  A coordinate is a numpy array all of whose axes have    *)
(* length 3:                                                               *)
(*   cls   "Vector" or "ndarray" (the Python type of the object)           *)
(*   rank  its number of axes (a Vector built by Vector.__new__ has 1)     *)
(*   nan   TRUE when the array holds NaN (its other components, if any,   *)
(*         are not kept)                                                   *)
(*   base  <<>> or an opaque finite real array, kept as the term that     *)
(*         computed it                                                     *)
(*   off   an exact vector added along the last axis                       *)
(* so that a parsed coordinate is [base |-> <<>>, off |-> <<x, y, z>>].   *)
(* An opaque term is taken to be a generic real array (not zero).         *)
(***************************************************************************)
Zero3 == <<0, 0, 0>>
Arr(cls, rank, base, off) ==
    [cls |-> cls, rank |-> rank, nan |-> FALSE, base |-> base, off |-> off]
NaNArr(cls, rank) ==
    [cls |-> cls, rank |-> rank, nan |-> TRUE, base |-> <<>>, off |-> Zero3]
Vec(x, y, z) == Arr("Vector", 1, <<>>, <<x, y, z>>)

\* Every component is exactly 0.0.
IsZeroArr(a) == ~a.nan /\ a.base = <<>> /\ a.off = Zero3

V3Add(u, v) == <<u[1] + v[1], u[2] + v[2], u[3] + v[3]>>
V3Sub(u, v) == <<u[1] - v[1], u[2] - v[2], u[3] - v[3]>>

\* The type of a binary ufunc's result: the subclass when either operand is one.
UfuncCls(a, b) == IF a.cls = "Vector" \/ b.cls = "Vector" THEN "Vector" ELSE "ndarray"

\* a + b, broadcast; b is exact (a Vector built from numbers).
ArrAdd(a, b) ==
    IF a.nan \/ b.nan THEN NaNArr(UfuncCls(a, b), Max(a.rank, b.rank))
    ELSE Arr(UfuncCls(a, b), Max(a.rank, b.rank), a.base, V3Add(a.off, b.off))

\* a - b, broadcast.
ArrSub(a, b) ==
    IF a.nan \/ b.nan THEN NaNArr(UfuncCls(a, b), Max(a.rank, b.rank))
    ELSE Arr(UfuncCls(a, b), Max(a.rank, b.rank),
             IF a.base = b.base THEN <<>> ELSE <<"sub", a.base, b.base>>,
             V3Sub(a.off, b.off))

(***************************************************************************)
(* Vector.__new__(cls, *xyz).  args is the tuple xyz of Python values.    *)
(* Returns [exc, val].                                                     *)
(***************************************************************************)
\* np.array(xyz, dtype=float) read through a buffer of shape (3,): the first
\* three floats of the flattened array; <<>> when xyz is ragged or mixed.
FlatFloats(xyz) ==
    IF \A i \in 1..Len(xyz) : IsNum(xyz[i])
    THEN Some([i \in 1..Len(xyz) |-> xyz[i][2]])
    ELSE IF /\ \A i \in 1..Len(xyz) : IsSeq(xyz[i])
            /\ \A i \in 1..Len(xyz) : Len(xyz[i][2]) = Len(xyz[1][2])
            /\ \A i \in 1..Len(xyz) : \A j \in 1..Len(xyz[i][2]) : IsNum(xyz[i][2][j])
    THEN LET m == Len(xyz[1][2])
         IN  Some([k \in 1..(Len(xyz) * m) |->
                     xyz[((k - 1) \div m) + 1][2][((k - 1) % m) + 1][2]])
    ELSE None

VectorNew(args) ==
    With(IF Len(args) # 3 /\ Len(args) > 0 THEN args[1] ELSE PySeq(args), LAMBDA first :
    With(IF IsSeq(first) THEN first[2] ELSE <<>>, LAMBDA xyz :
    With(FlatFloats(xyz), LAMBDA flat :
        IF Len(args) = 0
        THEN [exc |-> Exc("InputError", "3 values are required to make a vector", args),
              val |-> None]
        ELSE IF IsNum(first)
        THEN [exc |-> Exc("TypeError", "object has no len()", <<first>>), val |-> None]
        ELSE IF Len(xyz) # 3
        THEN [exc |-> Exc("InputError", "Length of vector must be 3.", xyz), val |-> None]
        ELSE IF flat = None
        THEN [exc |-> Exc("ValueError", "setting an array element with a sequence", xyz),
              val |-> None]
        ELSE IF Len(flat[1]) < 3
        THEN [exc |-> Exc("TypeError", "buffer is too small for requested array", xyz),
              val |-> None]
        ELSE [exc |-> NoExc, val |-> Some(Vec(flat[1][1], flat[1][2], flat[1][3]))])))

(***************************************************************************)
(* XYZ.__init__(self, f_name), read from the file system files (a         *)
(* function from paths to files).  Returns [exc, obj]: obj is <<>> when   *)
(* the constructor raises.                                                 *)
(***************************************************************************)
EnergyWord == <<"E", "n", "e", "r", "g", "y">>
EnergyColon == EnergyWord \o <<":">>

\* re.search(r"(?:Energy:\s+)(-\d+\.\d+)", line) matching at position p:
\* <<>> or <<group 1>>.  Each repetition is followed by a character outside
\* its class, so the greedy match is the only one.
EnergyMatchAt(line, p) ==
    With(p + Len(EnergyColon), LAMBDA q :
    With(RunLen(line, q, SpaceSet), LAMBDA ws :
    With(q + ws, LAMBDA m :
    With(RunLen(line, m + 1, DigitSet), LAMBDA d1 :
    With(m + 1 + d1, LAMBDA dot :
    With(RunLen(line, dot + 1, DigitSet), LAMBDA d2 :
        IF /\ HasPrefixAt(line, p, EnergyColon)
           /\ ws >= 1
           /\ m <= Len(line) /\ line[m] = "-"
           /\ d1 >= 1
           /\ dot <= Len(line) /\ line[dot] = "."
           /\ d2 >= 1
        THEN Some(SubSeq(line, m, dot + d2))
        ELSE None))))))

\* The leftmost match.
EnergySearch(line) ==
    With([p \in 1..Len(line) |-> EnergyMatchAt(line, p)], LAMBDA at :
    With({p \in 1..Len(line) : at[p] # None}, LAMBDA hits :
        IF hits = {} THEN None ELSE at[CHOOSE p \in hits : \A r \in hits : p <= r]))

\* re.search(r"([a-z]|[A-Z])+\d+", label)
HasLettersThenDigits(label) ==
    \E i \in 1..(Len(label) - 1) : label[i] \in LetterSet /\ label[i + 1] \in DigitSet

\* re.match(r"([a-z]|[A-Z])+", label): <<>> or <<group 0>>
LeadingLetters(label) ==
    With(RunLen(label, 1, LetterSet), LAMBDA n :
        IF n = 0 THEN None ELSE Some(SubSeq(label, 1, n)))

\* XYZ._fix_atom_names
FixAtomNames(atoms) ==
    With([i \in 1..Len(atoms) |-> LeadingLetters(atoms[i])], LAMBDA m :
    With({i \in 1..Len(atoms) : m[i] = None}, LAMBDA bad :
        IF bad # {}
        THEN [exc |-> Exc("AttributeError", "'NoneType' object has no attribute 'group'",
                          atoms[CHOOSE i \in bad : \A j \in bad : i <= j]),
              atoms |-> <<>>]
        ELSE [exc |-> NoExc, atoms |-> [i \in 1..Len(atoms) |-> m[i][1]]]))

\* atom[1:4]
CoordFields(atom) == SubSeq(atom, 2, IF Len(atom) < 4 THEN Len(atom) ELSE 4)

\* Vector([float(coord) for coord in atom[1:4]]) for one data line.  A NaN
\* among the three floats makes the Vector a NaN array.
LineCoord(atom) ==
    With(CoordFields(atom), LAMBDA fields :
    With({i \in 1..Len(fields) : ~FloatOK(fields[i])}, LAMBDA bad :
        IF bad # {}
        THEN [exc |-> Exc("ValueError", "could not convert string to float",
                          fields[CHOOSE i \in bad : \A j \in bad : i <= j]),
              val |-> None]
        ELSE With(VectorNew(<<PySeq([i \in 1..Len(fields) |->
                                       IF IsNaNTok(fields[i]) THEN PyNum(0)
                                       ELSE PyNum(FloatVal(fields[i]))])>>),
                  LAMBDA v :
                 IF v.exc.type = "InputError"
                 THEN [exc |-> Exc("ValueError", "invalid line in xyz file", atom),
                       val |-> None]
                 ELSE IF \E i \in 1..Len(fields) : IsNaNTok(fields[i])
                 THEN [exc |-> NoExc, val |-> Some(NaNArr("Vector", 1))]
                 ELSE v)))

Failed(e) == [exc |-> e, obj |-> None]

XYZInit(files, f_name) ==
    IF f_name \notin DOMAIN files
    THEN Failed(Exc("FileNotFoundError", "No such file or directory", f_name))
    ELSE
    With(files[f_name], LAMBDA f_lines :
    IF Len(f_lines) < 2
    THEN Failed(Exc("TypeError", "The given file appears to be empty", f_name))
    ELSE
    With(SubSeq(f_lines, 1, 2), LAMBDA header :
    With(Contains(header[2], EnergyWord), LAMBDA hasWord :
    With(IF hasWord THEN EnergySearch(header[2]) ELSE None, LAMBDA match :
    IF hasWord /\ match = None
    THEN Failed(Exc("AttributeError", "'NoneType' object has no attribute 'group'",
                    header[2]))
    ELSE
    With(IF hasWord THEN Some(FloatVal(match[1])) ELSE None, LAMBDA energy :
    With([i \in 1..(Len(f_lines) - 2) |-> Split(f_lines[i + 2])], LAMBDA data0 :
    IF data0 = <<>>
    THEN Failed(Exc("IndexError", "list index out of range", <<>>))
    ELSE
    With(IF data0[Len(data0)] = <<>> THEN SubSeq(data0, 1, Len(data0) - 1) ELSE data0,
         LAMBDA data :
    IF \E i \in 1..Len(data) : data[i] = <<>>
    THEN Failed(Exc("ValueError", "invalid line in xyz file", <<>>))
    ELSE
    With([i \in 1..Len(data) |-> data[i][1]], LAMBDA atoms0 :
    IF atoms0 = <<>>
    THEN Failed(Exc("IndexError", "list index out of range", <<>>))
    ELSE
    With(IF HasLettersThenDigits(atoms0[1]) THEN FixAtomNames(atoms0)
         ELSE [exc |-> NoExc, atoms |-> atoms0], LAMBDA fixed :
    IF fixed.exc # NoExc
    THEN Failed(fixed.exc)
    ELSE
    With([i \in 1..Len(data) |-> LineCoord(data[i])], LAMBDA lc :
    With({i \in 1..Len(data) : lc[i].exc # NoExc}, LAMBDA bad :
    IF bad # {}
    THEN Failed(lc[CHOOSE i \in bad : \A j \in bad : i <= j].exc)
    ELSE [exc |-> NoExc,
          obj |-> Some([file            |-> f_name,
                        header          |-> header,
                        energy          |-> energy,
                        original_energy |-> energy,
                        atoms           |-> fixed.atoms,
                        coords          |-> [i \in 1..Len(data) |-> lc[i].val[1]]])]
    )))))))))))

(***************************************************************************)
(* Python list indexing: index -n..n-1 names an element, anything else    *)
(* raises IndexError.  Pos is the element's position counted from 1.      *)
(***************************************************************************)
InRange(n, index) == 0 - n <= index /\ index < n
Pos(n, index) == IF index >= 0 THEN index + 1 ELSE n + index + 1

Result(e, o) == [exc |-> e, obj |-> o]

\* An object is the record of its attributes.  self.name = v makes the
\* attribute when the object has none of that name.
HasAttr(o, name) == name \in DOMAIN o
SetAttr(o, name, v) == [k \in DOMAIN o \cup {name} |-> IF k = name THEN v ELSE o[k]]
IndexErr(index) == Exc("IndexError", "list index out of range", <<index>>)

(***************************************************************************)
(* XYZ.center_on(self, index)                                              *)
(***************************************************************************)
\* A center_on that subtracts in place, reading self.coords[index] again for
\* every atom: the atoms after index are moved by the already-centred value.
CenterOnInPlace(o, index) ==
    IF ~InRange(Len(o.coords), index) THEN Result(IndexErr(index), o)
    ELSE With(Pos(Len(o.coords), index), LAMBDA p :
         With(ArrSub(o.coords[p], o.coords[p]), LAMBDA centred :
              Result(NoExc, [o EXCEPT !.coords =
                               [k \in 1..Len(o.coords) |->
                                   IF k <= p THEN ArrSub(o.coords[k], o.coords[p])
                                   ELSE ArrSub(o.coords[k], centred)]])))

CenterOn(o, index) ==
    IF ~InRange(Len(o.coords), index) THEN Result(IndexErr(index), o)
    ELSE With(o.coords[Pos(Len(o.coords), index)], LAMBDA center :
              Result(NoExc, [o EXCEPT !.coords =
                               [k \in 1..Len(o.coords) |-> ArrSub(o.coords[k], center)]]))

(***************************************************************************)
(* Vector.cross, Vector.diff_angle, rotation_matrix, Vector.rotate.       *)
(* The trigonometric results are opaque real arrays; what the model keeps *)
(* of them is their number of axes, whether they are NaN or exactly zero, *)
(* and the term that computed them.                                        *)
(***************************************************************************)
\* The product of two exact decimals, in units of 10^-5 (the sixth decimal
\* and beyond dropped), computed in pieces that stay within 32-bit integers.
Abs(a) == IF a < 0 THEN 0 - a ELSE a
MulNN(a, b) ==
    LET ah == a \div Unit
        al == a % Unit
        bh == b \div Unit
        bl == b % Unit
        t  == (al \div 1000) * bl
        s  == (al % 1000) * bl
    IN  ah * bh * Unit + ah * bl + al * bh + (t + s \div 1000) \div 100
MulFix(a, b) ==
    IF (a < 0) = (b < 0) THEN MulNN(Abs(a), Abs(b)) ELSE 0 - MulNN(Abs(a), Abs(b))

\* np.cross(self, vec) for exact vectors
V3Cross(u, v) == <<MulFix(u[2], v[3]) - MulFix(u[3], v[2]),
                   MulFix(u[3], v[1]) - MulFix(u[1], v[3]),
                   MulFix(u[1], v[2]) - MulFix(u[2], v[1])>>
V3Dot(u, v) == MulFix(u[1], v[1]) + MulFix(u[2], v[2]) + MulFix(u[3], v[3])

VectorCross(self, vec) ==
    IF self.nan \/ vec.nan THEN NaNArr("ndarray", Max(self.rank, vec.rank))
    ELSE IF self.base = <<>> /\ vec.base = <<>>
    THEN Arr("ndarray", Max(self.rank, vec.rank), <<>>, V3Cross(self.off, vec.off))
    ELSE Arr("ndarray", Max(self.rank, vec.rank), <<"cross", self, vec>>, Zero3)

\* np.arccos(self.dot(vec) / (norm(self) * norm(vec))): NaN for a zero vector
\* (0/0), exactly 0.0 for exact vectors that point the same way.
VectorDiffAngle(self, vec) ==
    With(Max(self.rank - 1, 0), LAMBDA rank :
    IF self.nan \/ vec.nan \/ IsZeroArr(self) \/ IsZeroArr(vec)
    THEN NaNArr("float64", rank)
    ELSE IF /\ self.rank = 1 /\ self.base = <<>> /\ vec.base = <<>>
            /\ V3Cross(self.off, vec.off) = Zero3
            /\ V3Dot(self.off, vec.off) > 0
    THEN Arr("float64", rank, <<>>, Zero3)
    ELSE Arr("float64", rank, <<"arccos", self, vec>>, Zero3))

\* The number of axes of rotation_matrix's result, from those of its
\* arguments: axis / sqrt(dot(axis, axis)), a = cos(theta / 2),
\* b, c, d = -axis * sin(theta / 2), and a matrix whose nine entries are
\* arrays themselves.
RotationMatrixRank(ra, rt) ==
    LET dotaa == IF ra <= 1 THEN 0 ELSE 2 * ra - 2
        axisN == Max(ra, dotaa)
        q     == Max(axisN, rt)
        e     == Max(rt, q - 1)
    IN  e + 2

\* rotation_matrix(axis, theta): NaN when the axis has no direction or an
\* argument is NaN.
rotation_matrix(axis, theta) ==
    [rank  |-> RotationMatrixRank(axis.rank, theta.rank),
     nan   |-> axis.nan \/ IsZeroArr(axis) \/ theta.nan,
     axis  |-> axis,
     theta |-> theta]

\* np.dot(r_mat, self): a base ndarray.
MatDot(r_mat, self) ==
    With(IF self.rank = 1 THEN r_mat.rank - 1 ELSE r_mat.rank + self.rank - 2, LAMBDA rank :
    IF r_mat.nan \/ self.nan THEN NaNArr("ndarray", rank)
    ELSE IF IsZeroArr(self) THEN Arr("ndarray", rank, <<>>, Zero3)
    ELSE Arr("ndarray", rank, <<"dot", r_mat, self>>, Zero3))

\* Vector.rotate(self, axis, angle)
VectorRotate(self, axis, angle) == MatDot(rotation_matrix(axis, angle), self)

(***************************************************************************)
(* XYZ.rotate_to_x_axis_on(self, index)                                    *)
(***************************************************************************)
AttrErr(name) == Exc("AttributeError", "object has no attribute", name)

\* A rotate_to_x_axis_on that treats the rotation as a move that invalidates
\* the energy.
RotateToXAxisOnClearsEnergy(o, index) ==
    IF ~InRange(Len(o.coords), index) THEN Result(IndexErr(index), o)
    ELSE With(o.coords[Pos(Len(o.coords), index)], LAMBDA c :
        IF \E k \in 1..Len(o.coords) : o.coords[k].cls # "Vector"
        THEN Result(AttrErr("rotate"), o)
        ELSE Result(NoExc, [o EXCEPT !.energy = None,
                                     !.coords = [k \in 1..Len(o.coords) |->
                                         VectorRotate(o.coords[k],
                                                      VectorDiffAngle(c, Vec(Unit, 0, 0)),
                                                      VectorCross(c, Vec(Unit, 0, 0)))]]))

RotateToXAxisOn(o, index) ==
    With(VectorNew(<<PyNum(Unit), PyNum(0), PyNum(0)>>).val[1], LAMBDA vec_x :
    IF ~InRange(Len(o.coords), index) THEN Result(IndexErr(index), o)
    ELSE
    With(o.coords[Pos(Len(o.coords), index)], LAMBDA c :
    IF c.cls # "Vector" THEN Result(AttrErr("diff_angle"), o)
    ELSE
    With(VectorDiffAngle(c, vec_x), LAMBDA angle :
    With(VectorCross(c, vec_x), LAMBDA axis :
    IF \E k \in 1..Len(o.coords) : o.coords[k].cls # "Vector"
    THEN Result(AttrErr("rotate"), o)
    ELSE Result(NoExc, [o EXCEPT !.coords =
                          [k \in 1..Len(o.coords) |-> VectorRotate(o.coords[k], angle, axis)]])
    ))))

(***************************************************************************)
(* XYZ.center_and_rotate_on(self, index1, index2)                          *)
(***************************************************************************)
\* A center_and_rotate_on that centres on index2 and aligns index1.
CenterAndRotateOnSwapped(o, index1, index2) ==
    With(CenterOn(o, index2), LAMBDA r1 :
        IF r1.exc # NoExc THEN r1 ELSE RotateToXAxisOn(r1.obj, index1))

CenterAndRotateOn(o, index1, index2) ==
    With(CenterOn(o, index1), LAMBDA r1 :
        IF r1.exc # NoExc THEN r1 ELSE RotateToXAxisOn(r1.obj, index2))

(***************************************************************************)
(* XYZ.replace_coords(self, arg): arg is <<"str", path>> or <<"obj", g>>. *)
(***************************************************************************)
PyStr(p) == <<"str", p>>
PyObj(g) == <<"obj", g>>

\* XYZ(arg) when arg is a str, else arg itself.
ReplaceSource(arg, files, objs) ==
    IF arg[1] = "str" THEN XYZInit(files, arg[2]) ELSE [exc |-> NoExc, obj |-> objs[arg[2]]]

\* A replace_coords that resets both energies.
ReplaceCoordsClearsOriginal(o, arg, files, objs) ==
    With(ReplaceSource(arg, files, objs), LAMBDA src :
        IF src.exc # NoExc THEN Result(src.exc, o)
        ELSE Result(NoExc, SetAttr(SetAttr([o EXCEPT !.coords = src.obj[1].coords],
                                           "energy", None),
                                   "original_energy", None)))

ReplaceCoords(o, arg, files, objs) ==
    With(ReplaceSource(arg, files, objs), LAMBDA src :
        IF src.exc # NoExc THEN Result(src.exc, o)
        ELSE Result(NoExc, SetAttr([o EXCEPT !.coords = src.obj[1].coords],
                                   "energy", None)))

(***************************************************************************)
(* XYZ.move_subset(self, movement, indices): movement is <<"vec", array>> *)
(* (a Vector) or <<"seq", values>>, indices a sequence of list indices.   *)
(***************************************************************************)
PyVec(a) == <<"vec", a>>

\* for index in indices: self.coords[index] = self.coords[index] + movement
\* An index out of range raises and keeps the moves made before it.
RECURSIVE MoveLoop(_, _, _, _)
MoveLoop(coords, mv, indices, i) ==
    IF i > Len(indices) THEN [exc |-> NoExc, coords |-> coords]
    ELSE IF ~InRange(Len(coords), indices[i])
    THEN [exc |-> IndexErr(indices[i]), coords |-> coords]
    ELSE With(Pos(Len(coords), indices[i]), LAMBDA p :
              MoveLoop([coords EXCEPT ![p] = ArrAdd(coords[p], mv)], mv, indices, i + 1))

\* movement if it is a Vector, else Vector(*movement)
MovementVector(movement) ==
    IF movement[1] = "vec" THEN [exc |-> NoExc, val |-> Some(movement[2])]
    ELSE VectorNew(movement[2])

\* A move_subset without its last statement.
MoveSubsetKeepsEnergy(o, movement, indices) ==
    With(MovementVector(movement), LAMBDA made :
        IF made.exc # NoExc THEN Result(made.exc, o)
        ELSE With(MoveLoop(o.coords, made.val[1], indices, 1), LAMBDA moved :
                 Result(moved.exc, [o EXCEPT !.coords = moved.coords])))

MoveSubset(o, movement, indices) ==
    With(MovementVector(movement), LAMBDA made :
        IF made.exc # NoExc THEN Result(made.exc, o)
        ELSE With(MoveLoop(o.coords, made.val[1], indices, 1), LAMBDA moved :
                 IF moved.exc # NoExc
                 THEN Result(moved.exc, [o EXCEPT !.coords = moved.coords])
                 ELSE Result(NoExc, SetAttr([o EXCEPT !.coords = moved.coords],
                                            "energy", None))))

(***************************************************************************)
(* The accessors: XYZ.energy, XYZ.original_energy, XYZ.n_atoms.  Each     *)
(* returns [exc, ret]; ret is <<>> for None.  Reading an attribute that   *)
(* the object does not have raises AttributeError.                         *)
(***************************************************************************)
EnergyGet(o) ==
    IF ~HasAttr(o, "energy") THEN [exc |-> AttrErr("_energy"), ret |-> None]
    ELSE IF o.energy = None
    THEN [exc |-> Exc("UnknownEnergyError", "", <<>>), ret |-> None]
    ELSE [exc |-> NoExc, ret |-> o.energy]

OriginalEnergyGet(o) ==
    IF ~HasAttr(o, "original_energy")
    THEN [exc |-> AttrErr("_original_energy"), ret |-> None]
    ELSE [exc |-> NoExc, ret |-> o.original_energy]

NAtomsGet(o) ==
    IF Len(o.atoms) # Len(o.coords)
    THEN [exc |-> NoExc, ret |-> None]
    ELSE [exc |-> NoExc, ret |-> Some(Len(o.atoms))]

(***************************************************************************)
(* The lines the inputs are made of, one character per element.           *)
(***************************************************************************)
\* 2\n
LnCount == <<"2", "\n">>
\* water\n
LnComment == <<"w", "a", "t", "e", "r", "\n">>
\* Energy: -1.5\n
LnEnergyNeg == <<"E", "n", "e", "r", "g", "y", ":", " ", "-", "1", ".", "5", "\n">>
\* E   Energy:   -12.25 au\n
LnEnergyWide == <<"E", " ", " ", " ", "E", "n", "e", "r", "g", "y", ":", " ", " ", " ", "-", "1", "2", ".", "2", "5", " ", "a", "u", "\n">>
\* Energy: 1.5\n
LnEnergyPos == <<"E", "n", "e", "r", "g", "y", ":", " ", "1", ".", "5", "\n">>
\* Energy: -3\n
LnEnergyInt == <<"E", "n", "e", "r", "g", "y", ":", " ", "-", "3", "\n">>
\* Energy:-1.5\n
LnEnergyNoSpace == <<"E", "n", "e", "r", "g", "y", ":", "-", "1", ".", "5", "\n">>
\* energy: -1.5\n
LnEnergyLower == <<"e", "n", "e", "r", "g", "y", ":", " ", "-", "1", ".", "5", "\n">>
\* \n
LnBlank == <<"\n">>
\* C 1.0 0.0 0.0\n
LnC == <<"C", " ", "1", ".", "0", " ", "0", ".", "0", " ", "0", ".", "0", "\n">>
\* H 0.0 1.5 0.0\n
LnH == <<"H", " ", "0", ".", "0", " ", "1", ".", "5", " ", "0", ".", "0", "\n">>
\* O1 0.0 0.0 0.5\n
LnO1 == <<"O", "1", " ", "0", ".", "0", " ", "0", ".", "0", " ", "0", ".", "5", "\n">>
\* H2  1.0\t1.0 0.0\n
LnH2 == <<"H", "2", " ", " ", "1", ".", "0", "\t", "1", ".", "0", " ", "0", ".", "0", "\n">>
\* H3 -1.0 0.0 0.0
LnH3 == <<"H", "3", " ", "-", "1", ".", "0", " ", "0", ".", "0", " ", "0", ".", "0">>
\* 1H 0.5 0.5 0.5\n
LnDigitFirst == <<"1", "H", " ", "0", ".", "5", " ", "0", ".", "5", " ", "0", ".", "5", "\n">>
\* N 1 2 3 4\n
LnFive == <<"N", " ", "1", " ", "2", " ", "3", " ", "4", "\n">>
\* C 1.0 2.0\n
LnThree == <<"C", " ", "1", ".", "0", " ", "2", ".", "0", "\n">>
\* C\n
LnOne == <<"C", "\n">>
\* C 1.0 x 0.0\n
LnWord == <<"C", " ", "1", ".", "0", " ", "x", " ", "0", ".", "0", "\n">>
\* N nan 0.0 0.0\n
LnNaN == <<"N", " ", "n", "a", "n", " ", "0", ".", "0", " ", "0", ".", "0", "\n">>
\* C x\n
LnWordShort == <<"C", " ", "x", "\n">>

(***************************************************************************)
(* The state.                                                              *)
(*   fs    the files: a function from paths to files (sequences of lines) *)
(*   obj   the geometry objects: obj[g] is <<>> before XYZ() returned it, *)
(*         else <<its attributes>>                                         *)
(*   last  the latest call: its name, receiver, arguments, the exception  *)
(*         it raised (NoExc when it returned) and what it returned         *)
(*   nOps  the number of mutating calls made                               *)
(*   frame the local variables of the call that is running step by step,  *)
(*         <<>> when none is                                               *)
(***************************************************************************)
ObjIds == {1, 2}
NoFrame == <<>>

Call(op, g, args, exc, ret) ==
    [op |-> op, self |-> g, args |-> args, exc |-> exc, ret |-> ret]
NoCall == Call("init", 0, <<>>, NoExc, None)

\* Two well-formed files with different atom counts, one with an energy, one
\* with a NaN coordinate and a malformed one; "none.xyz" does not exist.
FileA == <<LnCount, LnEnergyNeg, LnC, LnH>>
FileB == <<LnCount, LnComment, LnO1, LnH2, LnH3>>
FileNaN == <<LnCount, LnComment, LnNaN, LnH>>
FileBad == <<LnCount, LnComment, LnWord>>
FS0 == ("a.xyz" :> FileA) @@ ("b.xyz" :> FileB) @@ ("nan.xyz" :> FileNaN)
         @@ ("bad.xyz" :> FileBad)
PathMenu == {"a.xyz", "b.xyz", "nan.xyz", "bad.xyz", "none.xyz"}
InitPath == (1 :> "a.xyz") @@ (2 :> "b.xyz")

Init ==
    /\ fs = FS0
    /\ obj = [g \in ObjIds |-> XYZInit(FS0, InitPath[g]).obj]
    /\ last = NoCall
    /\ nOps = 0
    /\ frame = NoFrame

\* The arguments the calls are made with.
IndexMenu(o) == -1..Len(o.coords)
MovementMenu == {PyVec(Vec(Unit, 0, 0)),
                 PySeq(<<PyNum(0), PyNum(0 - Unit), PyNum(Unit \div 2)>>),
                 PySeq(<<PyNum(Unit), PyNum(Unit)>>)}
IndicesMenu(o) == {<<0>>, <<0, 0>>, <<-1>>, <<0, 1>>, <<0, Len(o.coords)>>}
ReplaceMenu == {PyObj(g) : g \in ObjIds} \cup {PyStr(p) : p \in PathMenu}

Mutate(g, op, args, r) ==
    /\ nOps < MaxOps
    /\ obj' = [obj EXCEPT ![g] = Some(r.obj)]
    /\ last' = Call(op, g, args, r.exc, None)
    /\ nOps' = nOps + 1
    /\ UNCHANGED <<fs, frame>>

DoCenterOn(g) ==
    /\ obj[g] # None
    /\ \E index \in IndexMenu(obj[g][1]) :
          Mutate(g, "center_on", <<index>>, CenterOn(obj[g][1], index))

DoRotateToXAxisOn(g) ==
    /\ obj[g] # None
    /\ \A k \in 1..Len(obj[g][1].coords) : obj[g][1].coords[k].rank <= MaxRotRank
    /\ \E index \in IndexMenu(obj[g][1]) :
          Mutate(g, "rotate_to_x_axis_on", <<index>>, RotateToXAxisOn(obj[g][1], index))

DoCenterAndRotateOn(g) ==
    /\ obj[g] # None
    /\ \A k \in 1..Len(obj[g][1].coords) : obj[g][1].coords[k].rank <= MaxRotRank
    /\ \E index1, index2 \in IndexMenu(obj[g][1]) :
          Mutate(g, "center_and_rotate_on", <<index1, index2>>,
                 CenterAndRotateOn(obj[g][1], index1, index2))

DoReplaceCoords(g) ==
    /\ obj[g] # None
    /\ \E arg \in ReplaceMenu :
          /\ arg[1] = "obj" => obj[arg[2]] # None
          /\ Mutate(g, "replace_coords", <<arg>>, ReplaceCoords(obj[g][1], arg, fs, obj))

DoMoveSubset(g) ==
    /\ obj[g] # None
    /\ \E movement \in MovementMenu, indices \in IndicesMenu(obj[g][1]) :
          Mutate(g, "move_subset", <<movement, indices>>,
                 MoveSubset(obj[g][1], movement, indices))

Query(g, op, r) ==
    /\ last' = Call(op, g, <<>>, r.exc, r.ret)
    /\ UNCHANGED <<fs, obj, nOps, frame>>

DoEnergy(g) == obj[g] # None /\ Query(g, "energy", EnergyGet(obj[g][1]))
DoOriginalEnergy(g) ==
    obj[g] # None /\ Query(g, "original_energy", OriginalEnergyGet(obj[g][1]))
DoNAtoms(g) == obj[g] # None /\ Query(g, "n_atoms", NAtomsGet(obj[g][1]))

Next ==
    \E g \in ObjIds :
        \/ DoReplaceCoords(g)
        \/ DoMoveSubset(g)
        \/ DoCenterOn(g)
        \/ DoRotateToXAxisOn(g)
        \/ DoCenterAndRotateOn(g)
        \/ DoEnergy(g)
        \/ DoOriginalEnergy(g)
        \/ DoNAtoms(g)

Spec == Init /\ [][Next]_vars

(***************************************************************************)
(* Vector construction on its own: Vector(args...) for every tuple of up to *)
(* MaxArgs arguments, each a number or a sequence of numbers.              *)
(***************************************************************************)
SeqsUpTo(S, n) == UNION {[1..k -> S] : k \in 0..n}

ArgMenu == {PyNum(Unit), PyNum(0 - 2 * Unit),
            PySeq(<<>>),
            PySeq(<<PyNum(Unit), PyNum(Unit)>>),
            PySeq(<<PyNum(Unit), PyNum(0), PyNum(3 * Unit)>>),
            PySeq(<<PyNum(0), PyNum(Unit), PyNum(0), PyNum(Unit)>>)}

InitVector ==
    /\ fs = <<>>
    /\ obj = [g \in ObjIds |-> None]
    /\ last \in {Call("args", 0, args, NoExc, None) : args \in SeqsUpTo(ArgMenu, MaxArgs)}
    /\ nOps = 0
    /\ frame = NoFrame

\* Vector(args...)
DoVector ==
    /\ last.op = "args"
    /\ \E r \in {VectorNew(last.args)} : last' = Call("Vector", 0, last.args, r.exc, r.val)
    /\ UNCHANGED <<fs, obj, nOps, frame>>

NextVector == DoVector

SpecVector == InitVector /\ [][NextVector]_vars

(***************************************************************************)
(* XYZ construction on its own: XYZ(path) for every file of up to two     *)
(* header lines followed by up to MaxDataLines data lines.                 *)
(***************************************************************************)
Header2Menu == {LnComment, LnEnergyNeg, LnEnergyWide, LnEnergyPos, LnEnergyInt,
                LnEnergyNoSpace, LnEnergyLower}
DataMenu == {LnBlank, LnC, LnO1, LnH2, LnH3, LnDigitFirst, LnFive, LnThree, LnOne,
             LnWord, LnWordShort, LnNaN}

\* Only the last line of a file can lack its "\n".
ParseFiles ==
    {f \in {<<>>, <<LnCount>>}
              \cup {<<LnCount, h>> \o d :
                      h \in Header2Menu, d \in SeqsUpTo(DataMenu, MaxDataLines)} :
        \A i \in 1..(Len(f) - 1) : f[i][Len(f[i])] = "\n"}

InitParse ==
    /\ fs \in {("in.xyz" :> f) : f \in ParseFiles}
    /\ obj = [g \in ObjIds |-> None]
    /\ last = NoCall
    /\ nOps = 0
    /\ frame = NoFrame

\* g = XYZ(path)
DoXYZ(g, path) ==
    /\ obj[g] = None
    /\ \E r \in {XYZInit(fs, path)} :
          /\ obj' = [obj EXCEPT ![g] = r.obj]
          /\ last' = Call("XYZ", g, <<path>>, r.exc, None)
    /\ UNCHANGED <<fs, nOps, frame>>

NextParse == \E path \in {"in.xyz", "none.xyz"} : DoXYZ(1, path)

SpecParse == InitParse /\ [][NextParse]_vars

(***************************************************************************)
(* The properties checked of the geometry objects.                         *)
(***************************************************************************)
\* What XYZ(path) made of each object when it was constructed.
ParsedObjs == [g \in ObjIds |-> XYZInit(FS0, InitPath[g]).obj[1]]
Parsed(g) == ParsedObjs[g]

\* The step is a call of one of the operations ops on object g.
Called(g, ops) == last'.self = g /\ last'.op \in ops
Returned(g, ops) == Called(g, ops) /\ last'.exc = NoExc

EnergyUnknown(o) == EnergyGet(o).exc.type = "UnknownEnergyError"

C2_OriginalEnergyKept ==
    \A g \in ObjIds : OriginalEnergyGet(obj[g][1]) = [exc |-> NoExc, ret |-> Parsed(g).energy]

\* C2 witness: after a replace_coords that returned, the energy of object 1
\* is unknown and its original energy is still the parsed -1.5.
C2_Witness ==
    /\ last.op = "replace_coords" /\ last.self = 1 /\ last.exc = NoExc
    /\ obj[1][1].energy = None
    /\ obj[1][1].original_energy = Some(0 - 3 * (Unit \div 2))

\* C4: a call of center_on, rotate_to_x_axis_on or center_and_rotate_on,
\* whether it returns or raises, leaves the energy (known with the same value,
\* or unknown), the original energy, the atom labels and the header lines as
\* they were.
C4_CenterRotateFrame ==
    [][\A g \in ObjIds :
          Called(g, {"center_on", "rotate_to_x_axis_on", "center_and_rotate_on"})
            => /\ obj'[g][1].energy = obj[g][1].energy
               /\ EnergyGet(obj'[g][1]) = EnergyGet(obj[g][1])
               /\ obj'[g][1].original_energy = obj[g][1].original_energy
               /\ obj'[g][1].atoms = obj[g][1].atoms
               /\ obj'[g][1].header = obj[g][1].header]_vars

\* C4 witness: a center_and_rotate_on returned on object 1, whose energy is
\* known and whose coordinates are no longer the parsed ones.
C4_Witness ==
    /\ last.op = "center_and_rotate_on" /\ last.self = 1 /\ last.exc = NoExc
    /\ obj[1][1].energy = Some(0 - 3 * (Unit \div 2))
    /\ obj[1][1].coords # Parsed(1).coords

\* The atoms that the list indices names, as positions counted from 1.
Named(n, indices) == {Pos(n, indices[i]) : i \in 1..Len(indices)}

\* C3: when move_subset(v, indices) returns, every atom that indices names
\* has its previous coordinate plus v, every other atom has its previous
\* coordinate, and the atom labels and the header lines are unchanged.
C3_MoveSubsetFrame ==
    [][\A g \in ObjIds :
          Returned(g, {"move_subset"})
            => /\ \A k \in 1..Len(obj[g][1].coords) :
                     obj'[g][1].coords[k] =
                         IF k \in Named(Len(obj[g][1].coords), last'.args[2])
                         THEN ArrAdd(obj[g][1].coords[k], MovementVector(last'.args[1]).val[1])
                         ELSE obj[g][1].coords[k]
               /\ Len(obj'[g][1].coords) = Len(obj[g][1].coords)
               /\ obj'[g][1].atoms = obj[g][1].atoms
               /\ obj'[g][1].header = obj[g][1].header]_vars

\* The coordinate that center_on(index) read as the centre, and what the call
\* made of it.
CentreBefore(g) == obj[g][1].coords[Pos(Len(obj[g][1].coords), last'.args[1])]
CentreAfter(g) == obj'[g][1].coords[Pos(Len(obj[g][1].coords), last'.args[1])]

\* Every atom's coordinate is its previous one minus the previous centre.
Recentred(g) ==
    /\ Len(obj'[g][1].coords) = Len(obj[g][1].coords)
    /\ \A j \in 1..Len(obj[g][1].coords) :
          /\ obj'[g][1].coords[j] = ArrSub(obj[g][1].coords[j], CentreBefore(g))
          /\ ~obj[g][1].coords[j].nan /\ ~CentreBefore(g).nan
               => obj'[g][1].coords[j].off = V3Sub(obj[g][1].coords[j].off, CentreBefore(g).off)

\* C5, as claimed: when center_on(i) returns, every component of atom i's
\* coordinate is exactly 0 and every other atom has its previous coordinate
\* minus atom i's previous coordinate.
C5_CenterOnOrigin ==
    [][\A g \in ObjIds :
          Returned(g, {"center_on"}) => IsZeroArr(CentreAfter(g)) /\ Recentred(g)]_vars

\* C5, amended: when center_on(i) returns and atom i's coordinate held no
\* NaN, every component of atom i's coordinate is exactly 0; in every case
\* every atom has its previous coordinate minus atom i's previous coordinate.
C5_CenterOnFiniteOrigin ==
    [][\A g \in ObjIds :
          Returned(g, {"center_on"})
            => /\ ~CentreBefore(g).nan => IsZeroArr(CentreAfter(g))
               /\ CentreBefore(g).nan => CentreAfter(g).nan
               /\ Recentred(g)]_vars

\* C5 witness: center_on(1) returned on object 2, whose three parsed
\* coordinates differ: atom 1 is at the origin and atom 0 is where it was
\* minus where atom 1 was, (0, 0, 0.5) - (1, 1, 0) = (-1, -1, 0.5).
C5_Witness ==
    /\ last.op = "center_on" /\ last.self = 2 /\ last.args = <<1>> /\ last.exc = NoExc
    /\ nOps = 1
    /\ obj[2][1].coords[2] = Vec(0, 0, 0)
    /\ obj[2][1].coords[1] = Vec(0 - Unit, 0 - Unit, Unit \div 2)

\* C10: in every reachable state the number of atom labels is the number of
\* coordinates, and n_atoms returns that number.
C10_LabelsMatchCoords ==
    \A g \in ObjIds :
        /\ Len(obj[g][1].atoms) = Len(obj[g][1].coords)
        /\ NAtomsGet(obj[g][1]) = [exc |-> NoExc, ret |-> Some(Len(obj[g][1].atoms))]

(***************************************************************************)
(* The properties checked of Vector construction.                          *)
(***************************************************************************)
\* The three numbers that args gives, as three arguments or as one sequence
\* of three; <<>> when args is of any other shape.
ThreeNumbers(args) ==
    IF Len(args) = 3 /\ \A i \in 1..3 : IsNum(args[i])
    THEN Some(<<args[1][2], args[2][2], args[3][2]>>)
    ELSE IF /\ Len(args) = 1 /\ IsSeq(args[1]) /\ Len(args[1][2]) = 3
            /\ \A i \in 1..3 : IsNum(args[1][2][i])
    THEN Some(<<args[1][2][1][2], args[1][2][2][2], args[1][2][3][2]>>)
    ELSE None

\* C6: Vector(args...) returns the vector of the three numbers when args is
\* three numbers or one sequence of three numbers, and for every other args
\* it raises InputError and returns no vector.
C6_VectorConstruction ==
    last.op = "Vector"
      => IF ThreeNumbers(last.args) # None
         THEN /\ last.exc = NoExc
              /\ last.ret = Some(Vec(ThreeNumbers(last.args)[1][1],
                                     ThreeNumbers(last.args)[1][2],
                                     ThreeNumbers(last.args)[1][3]))
         ELSE /\ last.exc.type = "InputError"
              /\ last.ret = None

(***************************************************************************)
(* The properties checked of XYZ construction.                             *)
(***************************************************************************)
\* XYZ("in.xyz") was called.
Constructed == last.op = "XYZ" /\ last.args = <<"in.xyz">>

\* The lines after the two header lines, without one blank last line.
DataLines(f) ==
    IF Len(f) > 2 /\ IsBlank(f[Len(f)]) THEN SubSeq(f, 3, Len(f) - 1) ELSE SubSeq(f, 3, Len(f))

\* A data line with fewer than 4 fields or with a coordinate field that is
\* not a number.
Malformed(line) ==
    \/ Len(Split(line)) < 4
    \/ \E i \in 2..4 : i <= Len(Split(line)) /\ ~FloatOK(Split(line)[i])

MalformedLines(f) == {i \in 1..Len(DataLines(f)) : Malformed(DataLines(f)[i])}

\* The second header line has no "Energy", or an energy the pattern matches.
EnergyLineReads(f) == ~Contains(f[2], EnergyWord) \/ EnergySearch(f[2]) # None

\* C7: XYZ construction from a file with a malformed data line raises
\* ValueError "invalid line in xyz file" with a malformed line of the file as
\* the line it names, and returns no geometry.
C7_MalformedLineError ==
    (/\ Constructed
     /\ Len(fs["in.xyz"]) >= 2
     /\ EnergyLineReads(fs["in.xyz"])
     /\ MalformedLines(fs["in.xyz"]) # {})
      => /\ last.exc.type = "ValueError"
         /\ last.exc.msg = "invalid line in xyz file"
         /\ \E i \in MalformedLines(fs["in.xyz"]) :
               last.exc.arg = Split(DataLines(fs["in.xyz"])[i])
         /\ obj[last.self] = None

\* C8: XYZ construction from a file of fewer than 2 lines raises the
\* empty-file TypeError; from two header lines followed by zero or more
\* well-formed atom lines and at most one blank last line it returns a
\* geometry with one label and one coordinate per atom line.
C8_EmptyFileOrGeometry ==
    Constructed
      => /\ Len(fs["in.xyz"]) < 2
              => /\ last.exc.type = "TypeError"
                 /\ last.exc.msg = "The given file appears to be empty"
                 /\ obj[last.self] = None
         /\ (/\ Len(fs["in.xyz"]) >= 2
             /\ EnergyLineReads(fs["in.xyz"])
             /\ MalformedLines(fs["in.xyz"]) = {})
              => /\ last.exc = NoExc
                 /\ obj[last.self] # None
                 /\ Len(obj[last.self][1].atoms) = Len(DataLines(fs["in.xyz"]))
                 /\ Len(obj[last.self][1].coords) = Len(DataLines(fs["in.xyz"]))

\* The file constructs a geometry when its second line is a plain comment.
ConstructsWithComment(f) ==
    XYZInit("in.xyz" :> [f EXCEPT ![2] = LnComment], "in.xyz").exc = NoExc

\* C9: when the energy pattern matches nowhere in the second header line of
\* a file that is otherwise read, construction returns a geometry whose
\* energy accessor raises UnknownEnergyError and whose original_energy is
\* None.
C9_NoMatchNoEnergy ==
    (/\ Constructed
     /\ Len(fs["in.xyz"]) >= 2
     /\ EnergySearch(fs["in.xyz"][2]) = None
     /\ ConstructsWithComment(fs["in.xyz"]))
      => /\ last.exc = NoExc
         /\ obj[last.self] # None
         /\ EnergyUnknown(obj[last.self][1])
         /\ OriginalEnergyGet(obj[last.self][1]) = [exc |-> NoExc, ret |-> None]

(***************************************************************************)
(* XYZ.__str__ and XYZ.write.  The text is a sequence of characters.       *)
(***************************************************************************)
\* The minimum width of the label field and of each coordinate field.
FieldWidth == 10

\* The decimal digits of a natural number.
RECURSIVE DigitsOf(_)
DigitsOf(n) ==
    IF n < 10 THEN <<Digits[n + 1]>> ELSE DigitsOf(n \div 10) \o <<Digits[(n % 10) + 1]>>

Spaces(n) == [i \in 1..n |-> " "]
\* "{: <10s}" and "{: >10}": pad with spaces up to the width, never cut.
PadRight(s, w) == s \o Spaces(IF Len(s) < w THEN w - Len(s) ELSE 0)
PadLeft(s, w) == Spaces(IF Len(s) < w THEN w - Len(s) ELSE 0) \o s

\* "{: > 10.5f}".format(v): a space or a minus sign, the integer digits, a
\* point and five fractional digits, right-aligned in ten characters.
FormatFloat(v) ==
    PadLeft(<<IF v < 0 THEN "-" ELSE " ">>
              \o DigitsOf(Abs(v) \div Unit)
              \o <<".">>
              \o SubSeq(DigitsOf(Unit + (Abs(v) % Unit)), 2, FracDigits + 1),
            FieldWidth)

FormatNaN == PadLeft(<<" ", "n", "a", "n">>, FieldWidth)

\* f_string.format(label, coord) for a Vector of three floats; a NaN array
\* is written with nan in each field.
FormatAtom(label, c) ==
    Spaces(3) \o PadRight(label, FieldWidth)
      \o <<" ">> \o (IF c.nan THEN FormatNaN ELSE FormatFloat(c.off[1]))
      \o <<" ">> \o (IF c.nan THEN FormatNaN ELSE FormatFloat(c.off[2]))
      \o <<" ">> \o (IF c.nan THEN FormatNaN ELSE FormatFloat(c.off[3]))
      \o <<"\n">>

\* "".join(lines)
RECURSIVE Join(_)
Join(lines) == IF lines = <<>> THEN <<>> ELSE Head(lines) \o Join(Tail(lines))

\* The first atom whose line cannot be formatted, 0 when there is none: it
\* has no coordinate, or one that is not a Vector (no attribute x), or a
\* Vector whose x is an array.
FirstUnformatted(o) ==
    With({i \in 1..Len(o.atoms) :
            \/ i > Len(o.coords)
            \/ o.coords[i].cls # "Vector"
            \/ o.coords[i].rank # 1}, LAMBDA bad :
        IF bad = {} THEN 0 ELSE CHOOSE i \in bad : \A j \in bad : i <= j)

\* XYZ.__str__: [exc, text]
XYZStr(o) ==
    With(FirstUnformatted(o), LAMBDA i :
        IF i = 0
        THEN [exc |-> NoExc,
              text |-> Join(o.header)
                         \o Join([k \in 1..Len(o.atoms) |-> FormatAtom(o.atoms[k], o.coords[k])])]
        ELSE IF i > Len(o.coords) THEN [exc |-> IndexErr(i - 1), text |-> <<>>]
        ELSE IF o.coords[i].cls # "Vector" THEN [exc |-> AttrErr("x"), text |-> <<>>]
        ELSE [exc |-> Exc("TypeError", "unsupported format string", <<i - 1>>),
              text |-> <<>>])

\* f_file.readlines() of a file that holds text: the lines, each with its
\* "\n", the last one with or without.
RECURSIVE ReadLines(_)
ReadLines(text) ==
    IF text = <<>> THEN <<>>
    ELSE With(RunLen(text, 1, Range(text) \ {"\n"}), LAMBDA n :
              IF n = Len(text) THEN <<text>>
              ELSE <<SubSeq(text, 1, n + 1)>> \o ReadLines(SubSeq(text, n + 2, Len(text))))

\* XYZ.write(self, f_name): the files afterwards.  open(f_name, "w") empties
\* the file before str(self) is computed.
Write(o, files, f_name) ==
    With(XYZStr(o), LAMBDA s :
        [exc |-> s.exc, files |-> (f_name :> ReadLines(s.text)) @@ files])

(***************************************************************************)
(* Serialization: two geometries read from files, then any calls of       *)
(* center_on, move_subset, replace_coords and write.                       *)
(***************************************************************************)
OutPath == "out.xyz"

\* g.write("out.xyz")
DoWrite(g) ==
    /\ obj[g] # None
    /\ \E r \in {Write(obj[g][1], fs, OutPath)} :
          /\ fs' = r.files
          /\ last' = Call("write", g, <<OutPath>>, r.exc, None)
    /\ UNCHANGED <<obj, nOps, frame>>

NextWrite ==
    \E g \in ObjIds :
        \/ DoReplaceCoords(g)
        \/ DoMoveSubset(g)
        \/ DoCenterOn(g)
        \/ DoWrite(g)

SpecWrite == Init /\ [][NextWrite]_vars

\* XYZ("out.xyz") on the files as they are.
Reparsed == XYZInit(fs, OutPath)

\* C11: every write returns, and the file it wrote holds the two header
\* lines read at construction followed by one line per atom label; reading
\* it back gives the header lines, the labels in their original order and
\* the current coordinates of the geometry written.
C11_WriteRoundTrip ==
    last.op = "write"
      => /\ last.exc = NoExc
         /\ SubSeq(fs[OutPath], 1, 2) = Parsed(last.self).header
         /\ Len(fs[OutPath]) = 2 + Len(Parsed(last.self).atoms)
         /\ Reparsed.exc = NoExc
         /\ Reparsed.obj[1].header = Parsed(last.self).header
         /\ Reparsed.obj[1].atoms = Parsed(last.self).atoms
         /\ Reparsed.obj[1].coords =
               SubSeq(obj[last.self][1].coords, 1, Len(Parsed(last.self).atoms))

\* The first fields of the data lines: the atom labels as read.
LabelsRead(f) == [i \in 1..Len(DataLines(f)) |-> Split(DataLines(f)[i])[1]]

\* The label is one or more letters followed by one or more digits.
LettersDigits(label) ==
    /\ RunLen(label, 1, LetterSet) >= 1
    /\ RunLen(label, RunLen(label, 1, LetterSet) + 1, DigitSet) >= 1
    /\ RunLen(label, 1, LetterSet)
         + RunLen(label, RunLen(label, 1, LetterSet) + 1, DigitSet) = Len(label)

\* The letters the label starts with, none when it starts with another
\* character.
AlphaPrefix(label) == SubSeq(label, 1, RunLen(label, 1, LetterSet))

\* C12: for a file of well-formed atom lines, when the first label is
\* letters followed by digits construction returns a geometry whose labels
\* are the leading letters of the labels read; when no letter of the first
\* label is followed by a digit it returns one with the labels as read.
C12_LabelPrefixes ==
    (/\ Constructed
     /\ Len(fs["in.xyz"]) >= 2
     /\ EnergyLineReads(fs["in.xyz"])
     /\ MalformedLines(fs["in.xyz"]) = {}
     /\ DataLines(fs["in.xyz"]) # <<>>)
      => /\ LettersDigits(LabelsRead(fs["in.xyz"])[1])
              => /\ last.exc = NoExc
                 /\ obj[last.self] # None
                 /\ obj[last.self][1].atoms =
                       [i \in 1..Len(DataLines(fs["in.xyz"])) |->
                           AlphaPrefix(LabelsRead(fs["in.xyz"])[i])]
         /\ ~HasLettersThenDigits(LabelsRead(fs["in.xyz"])[1])
              => /\ last.exc = NoExc
                 /\ obj[last.self] # None
                 /\ obj[last.self][1].atoms = LabelsRead(fs["in.xyz"])

(***************************************************************************)
(* COM: the Gaussian input file.  COM.__init__ makes the attributes empty, *)
(* reads the lines and hands them to COM._parser, which is modelled one    *)
(* line of its loop at a time.  A COM object has no energy attributes:     *)
(* COM.__init__ does not call XYZ.__init__.                                *)
(***************************************************************************)
\* The bound on the lines of the files that are drawn line by line.
MaxComLines == 4

\* The attributes as COM.__init__ sets them before it reads the file.
COMNew(f_name) ==
    [file |-> f_name, header |-> <<>>, title |-> <<>>, cm |-> <<>>,
     atoms |-> <<>>, coords |-> <<>>, footer |-> <<>>]

\* The locals of COM._parser at the top of its loop: pos is the index of the
\* next line, from 1.
ParserFrame(g, files, f_name) ==
    [op |-> "_parser", g |-> g, path |-> f_name, self |-> COMNew(f_name),
     lines |-> files[f_name], pos |-> 1, section |-> "header", data |-> <<>>]

\* One pass of the loop body without the line that keeps a blank line in
\* the section it ends.
ParserLineDropsBlank(fr) ==
    With(fr.lines[fr.pos], LAMBDA line :
    With([fr EXCEPT !.pos = fr.pos + 1], LAMBDA nx :
        IF fr.section = "header"
        THEN IF IsBlank(line) THEN [nx EXCEPT !.section = "title"]
             ELSE [nx EXCEPT !.self.header = Append(fr.self.header, line)]
        ELSE IF fr.section = "title"
        THEN IF IsBlank(line) THEN [nx EXCEPT !.section = "charge_mult"]
             ELSE [nx EXCEPT !.self.title = Append(fr.self.title, line)]
        ELSE IF fr.section = "charge_mult"
        THEN [nx EXCEPT !.self.cm = Append(fr.self.cm, line), !.section = "geom"]
        ELSE IF fr.section = "geom"
        THEN IF IsBlank(line) THEN [nx EXCEPT !.section = "opt_input"]
             ELSE [nx EXCEPT !.data = Append(fr.data, Split(line))]
        ELSE [nx EXCEPT !.self.footer = Append(fr.self.footer, line)]))

\* One pass of the loop body of COM._parser, on line fr.lines[fr.pos].
ParserLine(fr) ==
    With(fr.lines[fr.pos], LAMBDA line :
    With([fr EXCEPT !.pos = fr.pos + 1], LAMBDA nx :
        IF fr.section = "header"
        THEN [nx EXCEPT !.self.header = Append(fr.self.header, line),
                        !.section = IF IsBlank(line) THEN "title" ELSE "header"]
        ELSE IF fr.section = "title"
        THEN [nx EXCEPT !.self.title = Append(fr.self.title, line),
                        !.section = IF IsBlank(line) THEN "charge_mult" ELSE "title"]
        ELSE IF fr.section = "charge_mult"
        THEN [nx EXCEPT !.self.cm = Append(fr.self.cm, line), !.section = "geom"]
        ELSE IF fr.section = "geom"
        THEN IF IsBlank(line) THEN [nx EXCEPT !.section = "opt_input"]
             ELSE [nx EXCEPT !.data = Append(fr.data, Split(line))]
        ELSE [nx EXCEPT !.self.footer = Append(fr.self.footer, line)]))

\* Vector([float(coord) for coord in atom[1:4]]) in COM._parser: nothing is
\* caught, so the ValueError of float and the InputError of Vector are
\* raised as they are.
COMLineCoord(atom) ==
    With(CoordFields(atom), LAMBDA fields :
    With({i \in 1..Len(fields) : ~FloatOK(fields[i])}, LAMBDA bad :
        IF bad # {}
        THEN [exc |-> Exc("ValueError", "could not convert string to float",
                          fields[CHOOSE i \in bad : \A j \in bad : i <= j]),
              val |-> None]
        ELSE With(VectorNew(<<PySeq([i \in 1..Len(fields) |->
                                       IF IsNaNTok(fields[i]) THEN PyNum(0)
                                       ELSE PyNum(FloatVal(fields[i]))])>>),
                  LAMBDA v :
                 IF v.exc # NoExc THEN [exc |-> v.exc, val |-> None]
                 ELSE IF \E i \in 1..Len(fields) : IsNaNTok(fields[i])
                 THEN [exc |-> NoExc, val |-> Some(NaNArr("Vector", 1))]
                 ELSE v)))

\* The two assignments after the loop of COM._parser, and with them the end
\* of COM.__init__: [exc, obj].
ParserEnd(fr) ==
    With([i \in 1..Len(fr.data) |-> COMLineCoord(fr.data[i])], LAMBDA lc :
    With({i \in 1..Len(fr.data) : lc[i].exc # NoExc}, LAMBDA bad :
        IF bad # {}
        THEN Failed(lc[CHOOSE i \in bad : \A j \in bad : i <= j].exc)
        ELSE [exc |-> NoExc,
              obj |-> Some([fr.self EXCEPT
                              !.atoms = [i \in 1..Len(fr.data) |-> fr.data[i][1]],
                              !.coords = [i \in 1..Len(fr.data) |-> lc[i].val[1]]])]))

\* The loop of COM._parser, from fr on.
RECURSIVE ParserLoop(_)
ParserLoop(fr) == IF fr.pos > Len(fr.lines) THEN fr ELSE ParserLoop(ParserLine(fr))

\* COM(f_name): [exc, obj]
COMInit(files, f_name) ==
    IF f_name \notin DOMAIN files
    THEN Failed(Exc("FileNotFoundError", "No such file or directory", f_name))
    ELSE ParserEnd(ParserLoop(ParserFrame(0, files, f_name)))

\* COM.__str__ without the blank line after the atom table.
COMStrNoBlank(o) ==
    With(FirstUnformatted(o), LAMBDA i :
        IF i = 0
        THEN [exc |-> NoExc,
              text |-> Join(o.header) \o Join(o.title) \o Join(o.cm)
                         \o Join([k \in 1..Len(o.atoms) |-> FormatAtom(o.atoms[k], o.coords[k])])
                         \o Join(o.footer)]
        ELSE IF i > Len(o.coords) THEN [exc |-> IndexErr(i - 1), text |-> <<>>]
        ELSE IF o.coords[i].cls # "Vector" THEN [exc |-> AttrErr("x"), text |-> <<>>]
        ELSE [exc |-> Exc("TypeError", "unsupported format string", <<i - 1>>),
              text |-> <<>>])

\* COM.__str__: [exc, text]
COMStr(o) ==
    With(FirstUnformatted(o), LAMBDA i :
        IF i = 0
        THEN [exc |-> NoExc,
              text |-> Join(o.header) \o Join(o.title) \o Join(o.cm)
                         \o Join([k \in 1..Len(o.atoms) |-> FormatAtom(o.atoms[k], o.coords[k])])
                         \o <<"\n">>
                         \o Join(o.footer)]
        ELSE IF i > Len(o.coords) THEN [exc |-> IndexErr(i - 1), text |-> <<>>]
        ELSE IF o.coords[i].cls # "Vector" THEN [exc |-> AttrErr("x"), text |-> <<>>]
        ELSE [exc |-> Exc("TypeError", "unsupported format string", <<i - 1>>),
              text |-> <<>>])

\* XYZ.write on a COM object: str(self) is COM.__str__.
COMWrite(o, files, f_name) ==
    With(COMStr(o), LAMBDA s :
        [exc |-> s.exc, files |-> (f_name :> ReadLines(s.text)) @@ files])

\* #p hf\n
LnRoute == <<"#", "p", " ", "h", "f", "\n">>
\* a space and \n
LnSpaces == <<" ", "\n">>
\* two spaces
LnSpacesEnd == <<" ", " ">>
\* 0 1\n
LnCM == <<"0", " ", "1", "\n">>
\* B 1 2 F\n
LnFooter == <<"B", " ", "1", " ", "2", " ", "F", "\n">>
\* B 1 2 F
LnFooterEnd == <<"B", " ", "1", " ", "2", " ", "F">>

(***************************************************************************)
(* COM construction and serialization: COM(path), one parser line at a    *)
(* time, then write.  The files are every sequence of up to MaxComLines   *)
(* lines of ComLineMenu, and the files made of a header, a title, a       *)
(* charge/multiplicity line, up to MaxDataLines atom lines and an end.    *)
(***************************************************************************)
ComLineMenu == {LnRoute, LnBlank, LnSpaces, LnCM, LnC}
ComHeaderMenu == {<<LnRoute, LnBlank>>, <<LnRoute, LnRoute, LnSpaces>>}
ComTitleMenu == {<<LnComment, LnBlank>>}
ComAtomMenu == {LnC, LnH2, LnFive, LnNaN, LnWord, LnThree}
ComEndMenu == {<<>>, <<LnBlank>>, <<LnSpacesEnd>>, <<LnSpaces, LnFooter>>,
               <<LnBlank, LnFooter, LnBlank, LnFooterEnd>>}

ComFiles ==
    SeqsUpTo(ComLineMenu, MaxComLines)
      \cup {h \o t \o <<LnCM>> \o d \o e :
              h \in ComHeaderMenu, t \in ComTitleMenu,
              d \in SeqsUpTo(ComAtomMenu, MaxDataLines), e \in ComEndMenu}

InPathCom == "in.com"
OutPathCom == "out.com"

InitCOM ==
    /\ fs \in {(InPathCom :> f) : f \in ComFiles}
    /\ obj = [g \in ObjIds |-> None]
    /\ last = NoCall
    /\ nOps = 0
    /\ frame = NoFrame

\* g = COM(path), up to the call of _parser.
DoCOM(g, path) ==
    /\ frame = NoFrame
    /\ obj[g] = None
    /\ last.op = "init"
    /\ IF path \in DOMAIN fs
       THEN /\ frame' = Some(ParserFrame(g, fs, path))
            /\ UNCHANGED last
       ELSE /\ last' = Call("COM", g, <<path>>, COMInit(fs, path).exc, None)
            /\ UNCHANGED frame
    /\ UNCHANGED <<fs, obj, nOps>>

\* for line in lines: one pass
ParserStep ==
    /\ frame # NoFrame
    /\ frame[1].pos <= Len(frame[1].lines)
    /\ frame' = Some(ParserLine(frame[1]))
    /\ UNCHANGED <<fs, obj, last, nOps>>

\* The loop is over: atoms and coords are made, _parser and COM() return.
ParserReturn ==
    /\ frame # NoFrame
    /\ frame[1].pos > Len(frame[1].lines)
    /\ \E r \in {ParserEnd(frame[1])} :
          /\ obj' = [obj EXCEPT ![frame[1].g] = r.obj]
          /\ last' = Call("COM", frame[1].g, <<frame[1].path>>, r.exc, None)
    /\ frame' = NoFrame
    /\ UNCHANGED <<fs, nOps>>

\* g.write("out.com")
DoWriteCOM(g) ==
    /\ frame = NoFrame
    /\ obj[g] # None
    /\ \E r \in {COMWrite(obj[g][1], fs, OutPathCom)} :
          /\ fs' = r.files
          /\ last' = Call("write", g, <<OutPathCom>>, r.exc, None)
    /\ UNCHANGED <<obj, nOps, frame>>

NextCOM ==
    \/ \E path \in {InPathCom, "none.com"} : DoCOM(1, path)
    \/ ParserStep
    \/ ParserReturn
    \/ DoWriteCOM(1)

SpecCOM == InitCOM /\ [][NextCOM]_vars

(***************************************************************************)
(* The properties checked of the COM parser and serializer.                *)
(***************************************************************************)
\* The place of a section in the order of the parser's sections.
SectionRank(section) ==
    CASE section = "header" -> 1
      [] section = "title" -> 2
      [] section = "charge_mult" -> 3
      [] section = "geom" -> 4
      [] section = "opt_input" -> 5

\* The lines read so far are, in order: the header, which holds a blank line
\* only as its last line and only once the header is over; the title, the
\* same; one charge/multiplicity line once that section is over; the
\* geometry lines, none of them blank, kept split; the one blank line that
\* ended the geometry, kept nowhere; the footer.
ParserAssigned(fr) ==
    \E h \in {Len(fr.self.header)}, t \in {Len(fr.self.title)}, c \in {Len(fr.self.cm)},
       d \in {Len(fr.data)}, f \in {Len(fr.self.footer)},
       drop \in {IF fr.section = "opt_input" THEN 1 ELSE 0},
       rank \in {SectionRank(fr.section)} :
        /\ h + t + c + d + drop + f = fr.pos - 1
        /\ fr.self.header = SubSeq(fr.lines, 1, h)
        /\ fr.self.title = SubSeq(fr.lines, h + 1, h + t)
        /\ fr.self.cm = SubSeq(fr.lines, h + t + 1, h + t + c)
        /\ fr.data = [i \in 1..d |-> Split(fr.lines[h + t + c + i])]
        /\ drop = 1 => IsBlank(fr.lines[h + t + c + d + 1])
        /\ fr.self.footer = SubSeq(fr.lines, h + t + c + d + drop + 1, fr.pos - 1)
        /\ {i \in 1..h : IsBlank(fr.lines[i])} = (IF rank > 1 THEN {h} ELSE {})
        /\ {i \in (h + 1)..(h + t) : IsBlank(fr.lines[i])}
             = (IF rank > 2 THEN {h + t} ELSE {})
        /\ c = (IF rank > 3 THEN 1 ELSE 0)
        /\ \A i \in 1..d : ~IsBlank(fr.lines[h + t + c + i])
        /\ rank < 4 => d = 0
        /\ rank < 5 => f = 0

\* C13: in every step of COM construction the parser's section stays or
\* moves to the next one in the order header, title, charge/multiplicity,
\* geometry, footer, and after it every line read so far is in exactly one
\* of header, title, charge/multiplicity, geometry and footer, in file
\* order, except the blank line that ended the geometry: header and title end
\* with their first blank line, one line is the charge/multiplicity, the
\* geometry ends before its first blank line.
C13_SectionsAdvance ==
    [][/\ frame' # NoFrame => ParserAssigned(frame'[1])
       /\ (frame # NoFrame /\ frame' # NoFrame)
            => /\ SectionRank(frame'[1].section) - SectionRank(frame[1].section) \in {0, 1}
               /\ frame'[1].pos = frame[1].pos + 1
               /\ frame'[1].lines = frame[1].lines]_vars

\* The parser has read a whole file with atom lines and a footer.
C13_Witness ==
    /\ frame # NoFrame
    /\ frame[1].pos > Len(frame[1].lines)
    /\ frame[1].section = "opt_input"
    /\ Len(frame[1].self.header) >= 2
    /\ Len(frame[1].data) >= 2
    /\ Len(frame[1].self.footer) >= 2

\* An atom line: a label and three numbers that float() reads.
IsAtomLine(line) ==
    /\ Len(Split(line)) >= 4
    /\ \A i \in 2..4 : FloatOK(Split(line)[i])

\* The file has the five sections: lines ending with the first blank line at
\* h, lines ending with the next blank line at t, one charge/multiplicity
\* line, d atom lines, a blank line, and the footer, which is any lines.
Sections(f, h, t, d) ==
    /\ 1 <= h /\ h < t /\ t + d + 2 <= Len(f)
    /\ \A i \in 1..t : IsBlank(f[i]) <=> i \in {h, t}
    /\ ~IsBlank(f[t + 1])
    /\ \A i \in (t + 2)..(t + 1 + d) : IsAtomLine(f[i])
    /\ IsBlank(f[t + d + 2])

FiveSections(f) == \E h, t \in 1..Len(f), d \in 0..Len(f) : Sections(f, h, t, d)

\* C14: for a file with the five sections, construction returns, write
\* returns, and the file written has as many lines as the file read: the
\* header, title, charge/multiplicity and footer lines are the lines read,
\* each atom line carries the label and the three numbers of the atom line
\* read in its place, and the line after the atom table is one empty line.
C14_COMRoundTrip ==
    (last.op \in {"COM", "write"} /\ last.exc.type # "FileNotFoundError"
       /\ FiveSections(fs[InPathCom]))
      => /\ last.exc = NoExc
         /\ last.op = "write" =>
              \A h, t \in 1..Len(fs[InPathCom]), d \in 0..Len(fs[InPathCom]) :
                 Sections(fs[InPathCom], h, t, d) =>
                    /\ Len(fs[OutPathCom]) = Len(fs[InPathCom])
                    /\ \A i \in 1..Len(fs[InPathCom]) :
                          IF i <= t + 1 \/ i > t + d + 2
                          THEN fs[OutPathCom][i] = fs[InPathCom][i]
                          ELSE IF i = t + d + 2
                          THEN fs[OutPathCom][i] = <<"\n">>
                          ELSE /\ Len(Split(fs[OutPathCom][i])) = 4
                               /\ Split(fs[OutPathCom][i])[1] = Split(fs[InPathCom][i])[1]
                               /\ COMLineCoord(Split(fs[OutPathCom][i]))
                                    = COMLineCoord(Split(fs[InPathCom][i]))
                               /\ COMLineCoord(Split(fs[OutPathCom][i])).exc = NoExc

\* A file with two atom lines and a footer of three lines has been written.
C14_Witness ==
    /\ last.op = "write"
    /\ last.exc = NoExc
    /\ \E h, t \in 1..Len(fs[InPathCom]) :
          /\ Sections(fs[InPathCom], h, t, 2)
          /\ Len(fs[InPathCom]) = t + 2 + 2 + 3
          /\ Split(fs[InPathCom][t + 2]) # Split(fs[InPathCom][t + 3])

(***************************************************************************)
(* COM objects in use: two geometries read from COM files, then any calls *)
(* of the inherited center_on, move_subset and replace_coords and reads of *)
(* the inherited energy and original_energy.                               *)
(***************************************************************************)
ComFileA == <<LnRoute, LnBlank, LnComment, LnBlank, LnCM, LnC, LnH, LnBlank>>
ComFileB == <<LnRoute, LnBlank, LnComment, LnBlank, LnCM, LnO1, LnH2, LnFive,
              LnBlank, LnFooter>>
FSCom == ("a.com" :> ComFileA) @@ ("b.com" :> ComFileB) @@ FS0
InitPathCom == (1 :> "a.com") @@ (2 :> "b.com")

InitCOMOps ==
    /\ fs = FSCom
    /\ obj = [g \in ObjIds |-> COMInit(FSCom, InitPathCom[g]).obj]
    /\ last = NoCall
    /\ nOps = 0
    /\ frame = NoFrame

NextCOMOps ==
    \E g \in ObjIds :
        \/ DoReplaceCoords(g)
        \/ DoMoveSubset(g)
        \/ DoCenterOn(g)
        \/ DoEnergy(g)
        \/ DoOriginalEnergy(g)

SpecCOMOps == InitCOMOps /\ [][NextCOMOps]_vars

\* C15: every read of energy or original_energy of a COM geometry reports
\* the energy as absent: it returns None or raises UnknownEnergyError.
C15_COMEnergyAbsent ==
    last.op \in {"energy", "original_energy"}
      => \/ last.exc = NoExc /\ last.ret = None
         \/ last.exc.type = "UnknownEnergyError"

(***************************************************************************)
(* The properties checked of the rotation and of the independence of the  *)
(* geometry objects.                                                       *)
(***************************************************************************)
\* The coordinate is the product of a rotation matrix and a vector.
Rotated(c) == c.base # <<>> /\ c.base[1] = "dot"

\* C16: when rotate_to_x_axis_on(index) returns, the rotation matrix each
\* coordinate was multiplied by was built with the cross product of
\* coords[index] and (1,0,0) as its axis and the angle between them as its
\* theta.
C16_RotationArguments ==
    [][(nOps' = nOps + 1 /\ last'.op = "rotate_to_x_axis_on" /\ last'.exc = NoExc)
         => \E c \in {obj[last'.self][1].coords[Pos(Len(obj[last'.self][1].coords),
                                                    last'.args[1])]} :
               \A k \in 1..Len(obj'[last'.self][1].coords) :
                  Rotated(obj'[last'.self][1].coords[k])
                    => /\ obj'[last'.self][1].coords[k].base[2].axis
                            = VectorCross(c, Vec(Unit, 0, 0))
                       /\ obj'[last'.self][1].coords[k].base[2].theta
                            = VectorDiffAngle(c, Vec(Unit, 0, 0))]_vars

\* C17: for valid indices i and j, center_and_rotate_on(i, j) leaves the
\* geometry as center_on(i) followed by rotate_to_x_axis_on(j) on the
\* centred coordinates leaves it, and raises what that sequence raises.
C17_CenterThenRotate ==
    [][(/\ nOps' = nOps + 1
        /\ last'.op = "center_and_rotate_on"
        /\ InRange(Len(obj[last'.self][1].coords), last'.args[1])
        /\ InRange(Len(obj[last'.self][1].coords), last'.args[2]))
         => \E r1 \in {CenterOn(obj[last'.self][1], last'.args[1])} :
               /\ r1.exc = NoExc
               /\ \E r2 \in {RotateToXAxisOn(r1.obj, last'.args[2])} :
                     /\ obj'[last'.self][1] = r2.obj
                     /\ last'.exc = r2.exc]_vars

\* A center_and_rotate_on(i, j) with different atoms i and j returned and
\* left a coordinate that is a rotated one.
C17_Witness ==
    /\ last.op = "center_and_rotate_on"
    /\ last.exc = NoExc
    /\ last.args[1] >= 0 /\ last.args[2] >= 0
    /\ last.args[1] # last.args[2]
    /\ \E k \in 1..Len(obj[last.self][1].coords) : Rotated(obj[last.self][1].coords[k])

(***************************************************************************)
(* The list objects behind coords.  Each geometry's coords attribute is a *)
(* reference to a list; here obj[g] is <<attributes, identity of that     *)
(* list>>.  center_on and rotate_to_x_axis_on bind coords to a new list,  *)
(* replace_coords to a copy of the other geometry's list, and move_subset *)
(* assigns to the items of the list itself, which every geometry that     *)
(* refers to the same list sees.  The arrays in the lists are never       *)
(* changed in place: every operation makes new arrays.                     *)
(***************************************************************************)
\* The identity of the next list made.
NewId == Cardinality(ObjIds) + nOps + 1

\* self.coords = arg.coords: the list of the other geometry itself.
CopyListShared(src_id, new_id) == src_id

\* arg.coords.copy(): a new list.
CopyList(src_id, new_id) == new_id

InitShare ==
    /\ fs = FS0
    /\ obj = [g \in ObjIds |-> <<XYZInit(FS0, InitPath[g]).obj[1], g>>]
    /\ last = NoCall
    /\ nOps = 0
    /\ frame = NoFrame

\* A call that binds self.coords to list id when it returns.
Rebind(g, op, args, r, id) ==
    /\ nOps < MaxOps
    /\ obj' = [obj EXCEPT ![g] = <<r.obj, IF r.exc = NoExc THEN id ELSE obj[g][2]>>]
    /\ last' = Call(op, g, args, r.exc, None)
    /\ nOps' = nOps + 1
    /\ UNCHANGED <<fs, frame>>

ShareCenterOn(g) ==
    /\ obj[g] # None
    /\ nOps < MaxOps
    /\ \E index \in IndexMenu(obj[g][1]) :
       \E r \in {CenterOn(obj[g][1], index)} :
          Rebind(g, "center_on", <<index>>, r, NewId)

ShareRotateToXAxisOn(g) ==
    /\ obj[g] # None
    /\ nOps < MaxOps
    /\ \A k \in 1..Len(obj[g][1].coords) : obj[g][1].coords[k].rank <= MaxRotRank
    /\ \E index \in IndexMenu(obj[g][1]) :
       \E r \in {RotateToXAxisOn(obj[g][1], index)} :
          Rebind(g, "rotate_to_x_axis_on", <<index>>, r, NewId)

ShareReplaceCoords(g) ==
    /\ obj[g] # None
    /\ nOps < MaxOps
    /\ \E arg \in ReplaceMenu :
       \E r \in {ReplaceCoords(obj[g][1], arg, fs, obj)} :
          Rebind(g, "replace_coords", <<arg>>, r,
                 CopyList(IF arg[1] = "obj" THEN obj[arg[2]][2] ELSE NewId, NewId))

\* self.coords[index] = ... changes the list, for every geometry that
\* refers to it.
ShareMoveSubset(g) ==
    /\ obj[g] # None
    /\ nOps < MaxOps
    /\ \E movement \in MovementMenu, indices \in IndicesMenu(obj[g][1]) :
       \E r \in {MoveSubset(obj[g][1], movement, indices)} :
          /\ obj' = [h \in ObjIds |->
                       IF h = g THEN <<r.obj, obj[g][2]>>
                       ELSE IF obj[h][2] = obj[g][2]
                       THEN <<[obj[h][1] EXCEPT !.coords = r.obj.coords], obj[h][2]>>
                       ELSE obj[h]]
          /\ last' = Call("move_subset", g, <<movement, indices>>, r.exc, None)
          /\ nOps' = nOps + 1
          /\ UNCHANGED <<fs, frame>>

NextShare ==
    \E g \in ObjIds :
        \/ ShareReplaceCoords(g)
        \/ ShareMoveSubset(g)
        \/ ShareCenterOn(g)
        \/ ShareRotateToXAxisOn(g)

SpecShare == InitShare /\ [][NextShare]_vars

\* C18: a call of center_on, rotate_to_x_axis_on, move_subset or
\* replace_coords on one geometry leaves the coordinates, labels and energy
\* of every other geometry as they were, whatever calls came before, a
\* replace_coords from the other geometry among them.
C18_NoSharedState ==
    [][\A g, h \in ObjIds :
          (nOps' = nOps + 1 /\ last'.self = g /\ h # g)
            => /\ obj'[h][1].coords = obj[h][1].coords
               /\ obj'[h][1].atoms = obj[h][1].atoms
               /\ obj'[h][1].energy = obj[h][1].energy
               /\ obj'[h][1].original_energy = obj[h][1].original_energy]_vars

\* Geometry 1 took the three coordinates of geometry 2 and then moved an
\* atom: its coordinates differ from those of geometry 2, which are the
\* parsed ones.
C18_Witness ==
    /\ last.op = "move_subset" /\ last.self = 1 /\ last.exc = NoExc
    /\ Len(obj[1][1].coords) = Len(Parsed(2).coords)
    /\ Len(Parsed(1).coords) # Len(Parsed(2).coords)
    /\ obj[2][1].coords = Parsed(2).coords
    /\ obj[1][1].coords # obj[2][1].coords

(***************************************************************************)
(* Simulation: the steps of a GROMACS run.  A path is the sequence of its  *)
(* components below the base folder, each a sequence of characters; the   *)
(* files are a function from the names of the folders in the base folder  *)
(* to the names of the files in them.  geometries is an OrderedDict, kept *)
(* as the sequence of its <<key, value>> items; the plain dicts are kept  *)
(* the same way.  gromacs.grompp and gromacs.mdrun are programs outside   *)
(* the repository: each either returns or raises.                          *)
(***************************************************************************)
\* The bound on the number of step-method calls.
MaxRuns == 3

\* The keys of mdps: the names of the step methods.
StepNames == {"minimize", "equilibrate"}
StepChars(step_name) ==
    IF step_name = "minimize" THEN <<"m", "i", "n", "i", "m", "i", "z", "e">>
    ELSE <<"e", "q", "u", "i", "l", "i", "b", "r", "a", "t", "e">>
\* benzene
SimName == <<"b", "e", "n", "z", "e", "n", "e">>

\* d[key] = value on an OrderedDict or a dict: a key that is there keeps its
\* place, a new key goes to the end.
DictSet(d, key, value) ==
    IF \E i \in 1..Len(d) : d[i][1] = key
    THEN [i \in 1..Len(d) |-> IF d[i][1] = key THEN <<key, value>> ELSE d[i]]
    ELSE Append(d, <<key, value>>)

\* self._fp(path) for a name relative to the working directory cwd
ResolvePath(cwd, path) == cwd \o <<path>>

\* Simulation.__init__(name, gro, top, base_folder='.', mdps): the base
\* folder is the path <<>>.
SimulationInit(name, gro, top, mdps) ==
    [name |-> name,
     top |-> ResolvePath(<<>>, top),
     geometries |-> <<<<"initial", ResolvePath(<<>>, gro)>>>>,
     base_folder |-> <<>>,
     folders |-> <<<<"base", <<>>>>>>,
     mdps |-> [i \in 1..Len(mdps) |-> <<mdps[i][1], ResolvePath(<<>>, mdps[i][2])>>],
     tprs |-> <<>>,
     deffnms |-> <<>>,
     outputs |-> <<>>]

\* next(reversed(self.geometries.items()))[1]
LastGeometry(o) == o.geometries[Len(o.geometries)][2]

\* re.match(r'\d{2}-\w+-\w+', d)
WordSet == LetterSet \cup DigitSet \cup {"_"}
FolderMatch(d) ==
    /\ RunLen(d, 1, DigitSet) >= 2
    /\ Len(d) >= 3 /\ d[3] = "-"
    /\ RunLen(d, 4, WordSet) >= 1
    /\ Len(d) >= 4 + RunLen(d, 4, WordSet) /\ d[4 + RunLen(d, 4, WordSet)] = "-"
    /\ RunLen(d, 5 + RunLen(d, 4, WordSet), WordSet) >= 1

\* Simulation._next_folder_index: every entry of the base folder is a folder.
NextFolderIndex(files) ==
    With({DigitsVal(d, 1, 2) : d \in {e \in DOMAIN files : FolderMatch(e)}}, LAMBDA nums :
        IF nums = {} THEN 1 ELSE (CHOOSE n \in nums : \A k \in nums : k <= n) + 1)

\* '{:0>2}-{}-{}'.format(folder_index, step_name, self.name)
FolderName(folder_index, step_name, name) ==
    With(DigitsOf(folder_index), LAMBDA ds :
        [i \in 1..(IF Len(ds) < 2 THEN 2 - Len(ds) ELSE 0) |-> "0"] \o ds
          \o <<"-">> \o StepChars(step_name) \o <<"-">> \o name)

\* '{}-{}.tpr'.format(self.name, step_name)
TprName(name, step_name) ==
    name \o <<"-">> \o StepChars(step_name) \o <<".", "t", "p", "r">>
\* '{}-{}-out'.format(self.name, step_name)
DeffnmName(name, step_name) ==
    name \o <<"-">> \o StepChars(step_name) \o <<"-", "o", "u", "t">>

\* p.with_suffix('.gro') on the last component of a path: the part from its
\* last "." on, if that is not its first character, is replaced.
WithSuffixGro(fname) ==
    With({i \in 2..Len(fname) : fname[i] = "."}, LAMBDA dots :
        (IF dots = {} THEN fname
         ELSE SubSeq(fname, 1, (CHOOSE i \in dots : \A j \in dots : j <= i) - 1))
          \o <<".", "g", "r", "o">>)

GromacsErr(tool) == Exc("GromacsError", "command failed", tool)
StepResult(e, o, files, ret) == [exc |-> e, obj |-> o, files |-> files, ret |-> ret]

\* The function that _make_step_method(step_name) returns, called with
\* geometry; gmx says which of the two GROMACS programs raises, if any.
\* With cd(folder) the working directory is the new folder.
StepMethod(o, files, step_name, geometry, gmx) ==
    With(FolderName(NextFolderIndex(files), step_name, o.name), LAMBDA fname :
    With(o.base_folder \o <<fname>>, LAMBDA folder :
    IF fname \in DOMAIN files
    THEN StepResult(Exc("FileExistsError", "File exists", fname), o, files, None)
    ELSE
    With([o EXCEPT !.folders = DictSet(o.folders, step_name, folder),
                   !.tprs = DictSet(o.tprs, step_name,
                                    ResolvePath(folder, TprName(o.name, step_name)))],
         LAMBDA o1 :
    IF gmx = "grompp"
    THEN StepResult(GromacsErr("grompp"), o1, (fname :> <<>>) @@ files, None)
    ELSE
    With([o1 EXCEPT !.outputs = DictSet(o1.outputs, <<"compile", step_name>>, "output"),
                    !.deffnms = DictSet(o1.deffnms, step_name,
                                        ResolvePath(folder, DeffnmName(o.name, step_name)))],
         LAMBDA o2 :
    IF gmx = "mdrun"
    THEN StepResult(GromacsErr("mdrun"), o2,
                    (fname :> <<TprName(o.name, step_name)>>) @@ files, None)
    ELSE
    With(WithSuffixGro(DeffnmName(o.name, step_name)), LAMBDA gro :
        StepResult(NoExc,
                   [o2 EXCEPT !.outputs = DictSet(o2.outputs, <<"run", step_name>>, "output"),
                              !.geometries = DictSet(o2.geometries, step_name,
                                                     ResolvePath(folder, gro))],
                   (fname :> <<TprName(o.name, step_name), gro>>) @@ files,
                   Some(folder)))))))

\* The base folder at the start: empty, or with a folder of an earlier run
\* and one of another kind, or with the one folder left of a long series of
\* runs.
OldFolder == <<"0", "5", "-", "e", "m", "-", "o", "l", "d">>
DataFolder == <<"d", "a", "t", "a">>
LateFolder == <<"9", "8", "-", "e", "m", "-", "o", "l", "d">>
SimFiles == {<<>>, (OldFolder :> <<>>) @@ (DataFolder :> <<>>), (LateFolder :> <<>>)}
GroIn == <<"i", "n", ".", "g", "r", "o">>
TopIn == <<"i", "n", ".", "t", "o", "p">>
MdpIn == <<"s", ".", "m", "d", "p">>

InitSim ==
    /\ fs \in SimFiles
    /\ obj = [g \in ObjIds |->
                IF g = 1
                THEN Some(SimulationInit(SimName, GroIn, TopIn,
                                         <<<<"minimize", MdpIn>>, <<"equilibrate", MdpIn>>>>))
                ELSE None]
    /\ last = NoCall
    /\ nOps = 0
    /\ frame = NoFrame

\* g.<step_name>(geometry)
DoStep(g, step_name) ==
    /\ obj[g] # None
    /\ nOps < MaxRuns
    /\ \E geometry \in {None, Some(<<GroIn>>)}, gmx \in {"", "grompp", "mdrun"} :
       \E r \in {StepMethod(obj[g][1], fs, step_name, geometry, gmx)} :
          /\ obj' = [obj EXCEPT ![g] = Some(r.obj)]
          /\ fs' = r.files
          /\ last' = Call(step_name, g, <<geometry>>, r.exc, r.ret)
          /\ nOps' = nOps + 1
    /\ UNCHANGED frame

NextSim == \E step_name \in StepNames : DoStep(1, step_name)

SpecSim == InitSim /\ [][NextSim]_vars

\* C19: before any step has run last_geometry is the initial geometry, and
\* after a step method returned it is the output geometry of that step: the
\* .gro file of the step in the folder the call made and returned.
C19_LastGeometryIsLatest ==
    /\ last.op = "init" => LastGeometry(obj[1][1]) = <<GroIn>>
    /\ (last.op \in StepNames /\ last.exc = NoExc)
         => LastGeometry(obj[1][1])
              = last.ret[1] \o <<WithSuffixGro(DeffnmName(SimName, last.op))>>

(***************************************************************************)
(* The solvent count of a topology file: get_solv_count_top and           *)
(* set_solv_count_top, called with n_top (folder is then not used).       *)
(***************************************************************************)
\* The bound on the lines of a topology file.
MaxTopLines == 3

UpperSeq == <<"A", "B", "C", "D", "E", "F", "G", "H", "I", "J", "K", "L", "M",
              "N", "O", "P", "Q", "R", "S", "T", "U", "V", "W", "X", "Y", "Z">>
LowerSeq == <<"a", "b", "c", "d", "e", "f", "g", "h", "i", "j", "k", "l", "m",
              "n", "o", "p", "q", "r", "s", "t", "u", "v", "w", "x", "y", "z">>
\* s.lower()
Lower(s) ==
    [i \in 1..Len(s) |->
        IF s[i] \in UpperSet THEN LowerSeq[CHOOSE k \in 1..26 : UpperSeq[k] = s[i]]
        ELSE s[i]]

\* line.strip().startswith(";")
IsTopComment(line) ==
    /\ RunLen(line, 1, SpaceSet) < Len(line)
    /\ line[RunLen(line, 1, SpaceSet) + 1] = ";"

\* re.search(r"\[\s*molecules\s*\]", line, flags=re.IGNORECASE)
MoleculesWord == <<"m", "o", "l", "e", "c", "u", "l", "e", "s">>
IsMoleculesLine(line) ==
    \E p \in 1..Len(line) :
        /\ line[p] = "["
        /\ \E q \in {p + 1 + RunLen(line, p + 1, SpaceSet)} :
              /\ HasPrefixAt(Lower(line), q, MoleculesWord)
              /\ \E r \in {q + 9 + RunLen(line, q + 9, SpaceSet)} :
                    r <= Len(line) /\ line[r] = "]"

\* re_n_solv.search(line) for r"(?:^\s*{res_name}\s+)(\d+)" with IGNORECASE
\* and a res_name of letters and digits: the digits matched, or None.
SolvMatch(line, res_name) ==
    With(RunLen(line, 1, SpaceSet) + 1, LAMBDA p :
    With(p + Len(res_name), LAMBDA q :
    With(RunLen(line, q, SpaceSet), LAMBDA w :
        IF /\ HasPrefixAt(Lower(line), p, Lower(res_name))
           /\ w >= 1
           /\ RunLen(line, q + w, DigitSet) >= 1
        THEN Some(SubSeq(line, q + w, q + w + RunLen(line, q + w, DigitSet) - 1))
        ELSE None)))

\* The loop of get_solv_count_top without the test for comment lines.
RECURSIVE SolvLineReadsComments(_, _, _, _)
SolvLineReadsComments(lines, i, mol_section, res_name) ==
    IF i > Len(lines) THEN 0
    ELSE IF ~mol_section
    THEN SolvLineReadsComments(lines, i + 1, IsMoleculesLine(lines[i]), res_name)
    ELSE IF SolvMatch(lines[i], res_name) # None THEN i
    ELSE SolvLineReadsComments(lines, i + 1, mol_section, res_name)

\* The loop of get_solv_count_top from line i on: the index of the line whose
\* count is returned, 0 when the loop ends without one.
RECURSIVE SolvLine(_, _, _, _)
SolvLine(lines, i, mol_section, res_name) ==
    IF i > Len(lines) THEN 0
    ELSE IF IsTopComment(lines[i]) THEN SolvLine(lines, i + 1, mol_section, res_name)
    ELSE IF ~mol_section
    THEN SolvLine(lines, i + 1, IsMoleculesLine(lines[i]), res_name)
    ELSE IF SolvMatch(lines[i], res_name) # None THEN i
    ELSE SolvLine(lines, i + 1, mol_section, res_name)

\* get_solv_count_top(n_top=n_top, res_name=res_name): [exc, ret]
GetSolvCountTop(files, n_top, res_name) ==
    IF n_top \notin DOMAIN files
    THEN [exc |-> Exc("FileNotFoundError", "No such file or directory", n_top),
          ret |-> None]
    ELSE With(SolvLine(files[n_top], 1, FALSE, res_name), LAMBDA i :
        IF i = 0
        THEN [exc |-> Exc("RuntimeError", "Did not find a line with the solvent count",
                          n_top),
              ret |-> None]
        ELSE With(SolvMatch(files[n_top][i], res_name)[1], LAMBDA ds :
                 [exc |-> NoExc, ret |-> Some(DigitsVal(ds, 1, Len(ds)))]))

\* re.sub(r"\d+", repl, line), from position p on
RECURSIVE SubDigits(_, _, _)
SubDigits(line, p, repl) ==
    IF p > Len(line) THEN <<>>
    ELSE IF line[p] \in DigitSet
    THEN repl \o SubDigits(line, p + RunLen(line, p, DigitSet), repl)
    ELSE <<line[p]>> \o SubDigits(line, p + 1, repl)

\* res_name.lower() in line.lower()
NamesResidue(line, res_name) == Contains(Lower(line), Lower(res_name))

\* The loop of set_solv_count_top from line i on: the lines written and done.
RECURSIVE SetLoop(_, _, _, _, _, _)
SetLoop(lines, i, mol_section, done, res_name, s_count) ==
    IF i > Len(lines) THEN [out |-> <<>>, done |-> done]
    ELSE
    With(~IsTopComment(lines[i]) /\ mol_section /\ ~done
           /\ NamesResidue(lines[i], res_name), LAMBDA hit :
    With(SetLoop(lines, i + 1,
                 mol_section \/ (~IsTopComment(lines[i]) /\ IsMoleculesLine(lines[i])),
                 done \/ hit, res_name, s_count), LAMBDA rest :
        [out |-> <<IF hit THEN SubDigits(lines[i], 1, DigitsOf(s_count)) ELSE lines[i]>>
                    \o rest.out,
         done |-> rest.done]))

\* os.path.join(os.path.dirname(n_top), prepend + os.path.basename(n_top)) for
\* the n_top and the prepend the calls are made with
TopPath == "topol.top"
BakPath == "unequal-topol.top"

\* set_solv_count_top with the file rewritten ahead of the copy: a copy that
\* raises leaves the rewritten file behind.
SetSolvCountTopWritesFirst(files, n_top, s_count, res_name, bak_raises) ==
    With(GetSolvCountTop(files, n_top, res_name), LAMBDA got :
    IF got.exc # NoExc THEN [exc |-> got.exc, files |-> files]
    ELSE IF got.ret = Some(s_count) THEN [exc |-> NoExc, files |-> files]
    ELSE
    With(SetLoop(files[n_top], 1, FALSE, FALSE, res_name, s_count), LAMBDA w :
    IF BakPath \in DOMAIN files /\ bak_raises
    THEN [exc |-> Exc("FileExistsError", "File exists", BakPath),
          files |-> (n_top :> w.out) @@ files]
    ELSE [exc |-> IF w.done THEN NoExc
                  ELSE Exc("RuntimeError", "Did not find a line with the solvent count",
                           n_top),
          files |-> (n_top :> w.out)
                    @@ (IF BakPath \in DOMAIN files THEN files
                        ELSE (BakPath :> w.out) @@ files)]))

\* set_solv_count_top(n_top=n_top, s_count=s_count, res_name=res_name):
\* [exc, files].  copy_no_overwrite is not among the sources: when the copy
\* is there already it either raises (bak_raises) or leaves it.
SetSolvCountTop(files, n_top, s_count, res_name, bak_raises) ==
    With(GetSolvCountTop(files, n_top, res_name), LAMBDA got :
    IF got.exc # NoExc THEN [exc |-> got.exc, files |-> files]
    ELSE IF got.ret = Some(s_count) THEN [exc |-> NoExc, files |-> files]
    ELSE IF BakPath \in DOMAIN files /\ bak_raises
    THEN [exc |-> Exc("FileExistsError", "File exists", BakPath), files |-> files]
    ELSE
    With(IF BakPath \in DOMAIN files THEN files ELSE (BakPath :> files[n_top]) @@ files,
         LAMBDA copied :
    With(SetLoop(files[n_top], 1, FALSE, FALSE, res_name, s_count), LAMBDA w :
        [exc |-> IF w.done THEN NoExc
                 ELSE Exc("RuntimeError", "Did not find a line with the solvent count",
                          n_top),
         files |-> (n_top :> w.out) @@ copied])))

\* [ molecules ]\n
LnMolecules == <<"[", " ", "m", "o", "l", "e", "c", "u", "l", "e", "s", " ", "]", "\n">>
\* [System]\n
LnSystem == <<"[", "S", "y", "s", "t", "e", "m", "]", "\n">>
\* ; SOL 9\n
LnTopComment == <<";", " ", "S", "O", "L", " ", "9", "\n">>
\* SOL 5\n
LnSol == <<"S", "O", "L", " ", "5", "\n">>
\*  sol  12\n
LnSolLower == <<" ", "s", "o", "l", " ", " ", "1", "2", "\n">>
\* SOLUTE 1\n
LnSolute == <<"S", "O", "L", "U", "T", "E", " ", "1", "\n">>
\* Protein 1\n
LnProtein == <<"P", "r", "o", "t", "e", "i", "n", " ", "1", "\n">>

\*  ; [ molecules ]\n
LnMolComment ==
    <<" ", ";", " ", "[", " ", "m", "o", "l", "e", "c", "u", "l", "e", "s", " ", "]", "\n">>

TopLineMenu ==
    {LnMolecules, LnSystem, LnTopComment, LnMolComment, LnSol, LnSolLower, LnSolute,
     LnProtein}
ResNameMenu == {<<"S", "O", "L">>, <<"s", "o", "l">>}
SCountMenu == {5, 12}

InitTop ==
    /\ fs \in {(TopPath :> f) : f \in SeqsUpTo(TopLineMenu, MaxTopLines)}
    /\ obj = [g \in ObjIds |-> None]
    /\ last = NoCall
    /\ nOps = 0
    /\ frame = NoFrame

\* get_solv_count_top(n_top=path, res_name=res_name)
DoGetSolvCountTop(path) ==
    /\ \E res_name \in ResNameMenu :
       \E r \in {GetSolvCountTop(fs, path, res_name)} :
          last' = Call("get_solv_count_top", 0, <<path, res_name>>, r.exc, r.ret)
    /\ UNCHANGED <<fs, obj, nOps, frame>>

\* set_solv_count_top(n_top=path, s_count=s_count, res_name=res_name)
DoSetSolvCountTop(path) ==
    /\ nOps < MaxOps
    /\ \E res_name \in ResNameMenu, s_count \in SCountMenu, bak_raises \in BOOLEAN :
       \E r \in {SetSolvCountTop(fs, path, s_count, res_name, bak_raises)} :
          /\ fs' = r.files
          /\ last' = Call("set_solv_count_top", 0, <<path, s_count, res_name>>, r.exc, None)
    /\ nOps' = nOps + 1
    /\ UNCHANGED <<obj, frame>>

NextTop ==
    \/ DoGetSolvCountTop(TopPath)
    \/ DoSetSolvCountTop(TopPath)

SpecTop == InitTop /\ [][NextTop]_vars

\* C20: when get_solv_count_top finds a count other than s_count and
\* set_solv_count_top then returns, get_solv_count_top returns s_count, and
\* every line of the file but the one get_solv_count_top read before is as
\* it was, in its place.
C20_SetThenGet ==
    [][(/\ nOps' = nOps + 1
        /\ last'.op = "set_solv_count_top"
        /\ last'.exc = NoExc
        /\ GetSolvCountTop(fs, TopPath, last'.args[3]).exc = NoExc
        /\ GetSolvCountTop(fs, TopPath, last'.args[3]).ret # Some(last'.args[2]))
         => /\ GetSolvCountTop(fs', TopPath, last'.args[3])
                 = [exc |-> NoExc, ret |-> Some(last'.args[2])]
            /\ Len(fs'[TopPath]) = Len(fs[TopPath])
            /\ \A i \in 1..Len(fs[TopPath]) :
                  i # SolvLine(fs[TopPath], 1, FALSE, last'.args[3])
                    => fs'[TopPath][i] = fs[TopPath][i]]_vars

\* C21: when get_solv_count_top already finds s_count, set_solv_count_top
\* returns with every file as it was and no backup made; when it finds
\* another count, the file is written only after copy_no_overwrite came
\* back: a call the copy stopped leaves every file as it was, any other call
\* leaves the backup there, and a backup made by the call holds the file as
\* it was before the call.
C21_NoChangeOrBackupFirst ==
    [][(/\ nOps' = nOps + 1
        /\ last'.op = "set_solv_count_top"
        /\ GetSolvCountTop(fs, TopPath, last'.args[3]).exc = NoExc)
         => IF GetSolvCountTop(fs, TopPath, last'.args[3]).ret = Some(last'.args[2])
            THEN fs' = fs /\ last'.exc = NoExc
            ELSE IF last'.exc # NoExc /\ last'.exc.type = "FileExistsError"
            THEN fs' = fs
            ELSE /\ BakPath \in DOMAIN fs'
                 /\ BakPath \in DOMAIN fs => fs'[BakPath] = fs[BakPath]
                 /\ BakPath \notin DOMAIN fs => fs'[BakPath] = fs[TopPath]]_vars

\* C21: a call has rewritten the file and left the file as it was in the
\* backup.
C21_Witness ==
    /\ last.op = "set_solv_count_top"
    /\ last.exc = NoExc
    /\ BakPath \in DOMAIN fs
    /\ fs[BakPath] # fs[TopPath]
    /\ GetSolvCountTop(fs, BakPath, last.args[3]).exc = NoExc
    /\ GetSolvCountTop(fs, BakPath, last.args[3]).ret # Some(last.args[2])

\* A line whose first non-blank character is a semicolon.
SemicolonFirst(line) ==
    \E p \in 1..Len(line) :
        /\ line[p] = ";"
        /\ \A q \in 1..(p - 1) : line[q] \in SpaceSet

\* The lines of a file that are left when those lines are taken out.
WithoutComments(lines) == SelectSeq(lines, LAMBDA line : ~SemicolonFirst(line))

\* C22: the outcome of get_solv_count_top (the count returned or the
\* exception raised) is its outcome on the file without the lines whose first
\* non-blank character is a semicolon; the line whose count is returned is no
\* such line and comes after a [ molecules ] line that is no such line either.
C22_CommentsIgnored ==
    [][last'.op = "get_solv_count_top"
         => /\ [exc |-> last'.exc, ret |-> last'.ret]
                 = GetSolvCountTop((TopPath :> WithoutComments(fs[TopPath])), TopPath,
                                   last'.args[2])
            /\ last'.exc = NoExc
                 => \E i \in 1..Len(fs[TopPath]) :
                       /\ i = SolvLine(fs[TopPath], 1, FALSE, last'.args[2])
                       /\ ~SemicolonFirst(fs[TopPath][i])
                       /\ \E j \in 1..(i - 1) :
                             /\ ~SemicolonFirst(fs[TopPath][j])
                             /\ IsMoleculesLine(fs[TopPath][j])]_vars

\* C22: get_solv_count_top has raised on a file whose only [ molecules ]
\* header ahead of a solvent line is commented out.
C22_Witness ==
    /\ last.op = "get_solv_count_top"
    /\ last.exc # NoExc
    /\ last.exc.type = "RuntimeError"
    /\ \E j, k \in 1..Len(fs[TopPath]) :
          /\ j < k
          /\ fs[TopPath][j] = LnMolComment
          /\ SolvMatch(fs[TopPath][k], last.args[2]) # None

\* The number a folder name starts with, 0 when it starts with no digit.
LeadingIndex(d) == DigitsVal(d, 1, RunLen(d, 1, DigitSet))

\* d[key] for a key that is there
DictGet(d, key) == d[CHOOSE i \in 1..Len(d) : d[i][1] = key][2]

\* C26: while the base folder holds fewer than 99 step folders, a call of a
\* step method makes one new folder, named by the index one greater than the
\* largest index of the step folders there (1 if there is none); that index
\* is greater than the index of every folder there before, and
\* folders[step_name] is the new folder.
C26_FolderIndexIncreases ==
    [][(/\ nOps' = nOps + 1
        /\ last'.op \in StepNames
        /\ Cardinality({e \in DOMAIN fs : FolderMatch(e)}) < 99)
         => \E f \in DOMAIN fs' \ DOMAIN fs :
               /\ DOMAIN fs' = DOMAIN fs \cup {f}
               /\ f = FolderName(NextFolderIndex(fs), last'.op, SimName)
               /\ \A e \in DOMAIN fs : LeadingIndex(e) < LeadingIndex(f)
               /\ DictGet(obj'[1][1].folders, last'.op) = <<f>>]_vars

(***************************************************************************)
(* PLUMED input files: update_plumed_input with its default change_keys,   *)
(* delete_keys and num_updater (_update_num).                              *)
(***************************************************************************)
\* Lines per PLUMED template.
MaxPluLines == 2

\* The default of shift in _update_num.
ShiftDefault == 120

\* d_cgenff_ptad_repls = {1: 63, 9: 69, 8: 72, 120: 182}
DCgenffPtadRepls == (1 :> 63) @@ (9 :> 69) @@ (8 :> 72) @@ (120 :> 182)

\* c_line_keywords
CLineKeywords ==
    {<<"W", "H", "O", "L", "E", "M", "O", "L", "E", "C", "U", "L", "E", "S">>,
     <<"c", "1", ":">>,
     <<"c", "2", ":">>,
     <<"g", "1", ":">>,
     <<"g", "2", ":">>,
     <<"g", "3", ":">>,
     <<"g", "4", ":">>,
     <<"d", "m", "1", ":">>,
     <<"d", "m", "2", ":">>}

\* d_line_keywords
DLineKeywords ==
    {<<"t", "r", "5", ":">>,
     <<"t", "r", "6", ":">>,
     <<"F", "I", "L", "E", "=", "C", "O", "L", "V", "A", "R">>}

\* d_equil_repls = {"dm2:": ["72", "71"], "dm1:": ["40", "12"]}
DEquilRepls ==
    (<<"d", "m", "2", ":">> :> <<<<"7", "2">>, <<"7", "1">>>>)
      @@ (<<"d", "m", "1", ":">> :> <<<<"4", "0">>, <<"1", "2">>>>)

\* UPPER_WALLS
UpperWallsWord == <<"U", "P", "P", "E", "R", "_", "W", "A", "L", "L", "S">>
\* 150.0,150.0 EXP=2,2
WallsOld ==
    <<"1", "5", "0", ".", "0", ",", "1", "5", "0", ".", "0", " ", "E", "X",
      "P", "=", "2", ",", "2">>
\* 75.0,75.0 EXP=1,1
WallsNew ==
    <<"7", "5", ".", "0", ",", "7", "5", ".", "0", " ", "E", "X", "P", "=",
      "1", ",", "1">>
\* AT=12.0,12.0
WallsAtOld == <<"A", "T", "=", "1", "2", ".", "0", ",", "1", "2", ".", "0">>
\* AT=10.5,10.5
WallsAtNew == <<"A", "T", "=", "1", "0", ".", "5", ",", "1", "0", ".", "5">>

InputErr(msg) == Exc("InputError", msg, "None")

\* _update_num(match, shift=shift, cat_repl_dict=cat_repl_dict) for a match
\* with the groups (pre, s), s a run of digits: [exc, ret]
UpdateNum(pre, s, shift, cat_repl_dict) ==
    IF cat_repl_dict = None
    THEN [exc |-> InputErr("cat_repl_dict must be defined"), ret |-> None]
    ELSE With(DigitsVal(s, 1, Len(s)), LAMBDA n :
        IF n < shift + 1
        THEN IF n \in DOMAIN cat_repl_dict[1]
             THEN [exc |-> NoExc, ret |-> Some(pre \o DigitsOf(cat_repl_dict[1][n]))]
             ELSE [exc |-> Exc("KeyError", "", n), ret |-> None]
        ELSE [exc |-> NoExc, ret |-> Some(pre \o DigitsOf(n - shift))])

\* _num_updater(n): num_updater itself when num_updater_kwargs is None,
\* otherwise the inner function, which calls num_updater(n, **kwargs) and
\* returns nothing.
NumUpdater(num_updater_kwargs, pre, s) ==
    IF num_updater_kwargs = None
    THEN UpdateNum(pre, s, ShiftDefault, None)
    ELSE With(UpdateNum(pre, s, num_updater_kwargs[1].shift,
                        num_updater_kwargs[1].cat_repl_dict), LAMBDA r :
             [exc |-> r.exc, ret |-> None])

\* re.sub(r"([=,-])(\d+)", _num_updater, line) from position p on:
\* [exc, out].  re.sub puts nothing in the place of a match for which the
\* function returns None.
RECURSIVE ReSubNums(_, _, _)
ReSubNums(line, p, num_updater_kwargs) ==
    IF p > Len(line) THEN [exc |-> NoExc, out |-> <<>>]
    ELSE IF line[p] \in {"=", ",", "-"} /\ RunLen(line, p + 1, DigitSet) >= 1
    THEN With(RunLen(line, p + 1, DigitSet), LAMBDA n :
         With(NumUpdater(num_updater_kwargs, <<line[p]>>, SubSeq(line, p + 1, p + n)),
              LAMBDA r :
         IF r.exc # NoExc THEN [exc |-> r.exc, out |-> <<>>]
         ELSE With(ReSubNums(line, p + 1 + n, num_updater_kwargs), LAMBDA rest :
                  [exc |-> rest.exc,
                   out |-> (IF r.ret = None THEN <<>> ELSE r.ret[1]) \o rest.out])))
    ELSE With(ReSubNums(line, p + 1, num_updater_kwargs), LAMBDA rest :
             [exc |-> rest.exc, out |-> <<line[p]>> \o rest.out])

\* line.replace(old, new) from position p on, old not empty
RECURSIVE Replace(_, _, _, _)
Replace(line, p, old, new) ==
    IF p > Len(line) THEN <<>>
    ELSE IF HasPrefixAt(line, p, old) THEN new \o Replace(line, p + Len(old), old, new)
    ELSE <<line[p]>> \o Replace(line, p + 1, old, new)

\* The body of the loop of update_plumed_input for one line: [exc, line],
\* line being what is written.
PlumedLine(line, change_keys, num_updater_kwargs, delete_keys, equil, equil_changes) ==
    With(Range(Split(line)) \cap change_keys, LAMBDA c_key_match :
    IF c_key_match # {}
    THEN With(ReSubNums(line, 1, num_updater_kwargs), LAMBDA r :
         IF r.exc # NoExc THEN [exc |-> r.exc, line |-> <<>>]
         ELSE IF ~equil THEN [exc |-> NoExc, line |-> r.out]
         ELSE IF Cardinality(c_key_match) > 1
         THEN [exc |-> Exc("KeyError", "More than one keyword matched in line",
                           c_key_match),
               line |-> <<>>]
         ELSE With(CHOOSE key \in c_key_match : TRUE, LAMBDA key :
                  [exc |-> NoExc,
                   line |-> IF key \in DOMAIN equil_changes[1]
                            THEN Replace(r.out, 1, equil_changes[1][key][1],
                                         equil_changes[1][key][2])
                            ELSE r.out]))
    ELSE IF Range(Split(line)) \cap delete_keys # {}
    THEN [exc |-> NoExc, line |-> <<>>]
    ELSE IF equil /\ HasPrefixAt(line, 1, UpperWallsWord)
    THEN [exc |-> NoExc,
          line |-> Replace(Replace(line, 1, WallsOld, WallsNew), 1,
                           WallsAtOld, WallsAtNew)]
    ELSE [exc |-> NoExc, line |-> line])

\* The loop of update_plumed_input from line i on: [exc, out], out the lines
\* written up to the end or to the exception.
RECURSIVE PlumedLoop(_, _, _, _, _, _, _)
PlumedLoop(lines, i, change_keys, num_updater_kwargs, delete_keys, equil, equil_changes) ==
    IF i > Len(lines) THEN [exc |-> NoExc, out |-> <<>>]
    ELSE With(PlumedLine(lines[i], change_keys, num_updater_kwargs, delete_keys, equil,
                         equil_changes), LAMBDA r :
         IF r.exc # NoExc THEN [exc |-> r.exc, out |-> <<>>]
         ELSE With(PlumedLoop(lines, i + 1, change_keys, num_updater_kwargs, delete_keys,
                              equil, equil_changes), LAMBDA rest :
                  [exc |-> rest.exc,
                   out |-> (IF r.line = <<>> THEN <<>> ELSE <<r.line>>) \o rest.out]))

\* update_plumed_input(n_plu_in, n_plu_out, num_updater_kwargs=...,
\* equil=..., equil_changes=...), n_plu_out another file than n_plu_in:
\* [exc, files].  open(n_plu_out, "w") empties the file or makes it.
UpdatePlumedInput(files, n_plu_in, n_plu_out, num_updater_kwargs, equil, equil_changes) ==
    IF equil /\ equil_changes = None
    THEN [exc |-> InputErr("equil_changes must be defined when equil is True"),
          files |-> files]
    ELSE IF n_plu_in \notin DOMAIN files
    THEN [exc |-> Exc("FileNotFoundError", "No such file or directory", n_plu_in),
          files |-> files]
    ELSE With(PlumedLoop(files[n_plu_in], 1, CLineKeywords, num_updater_kwargs,
                         DLineKeywords, equil, equil_changes), LAMBDA r :
             [exc |-> r.exc, files |-> (n_plu_out :> r.out) @@ files])

PluIn == "plumed.dat"
PluOut == "plumed-new.dat"

\* c1: COM ATOMS=1,121\n
LnPluCom ==
    <<"c", "1", ":", " ", "C", "O", "M", " ", "A", "T", "O", "M", "S", "=",
      "1", ",", "1", "2", "1", "\n">>
\* WHOLEMOLECULES ENTITY0=9-130\n
LnPluRange ==
    <<"W", "H", "O", "L", "E", "M", "O", "L", "E", "C", "U", "L", "E", "S",
      " ", "E", "N", "T", "I", "T", "Y", "0", "=", "9", "-", "1", "3", "0",
      "\n">>
\* dm1: DISTANCE ATOMS=40,c2\n
LnPluDist ==
    <<"d", "m", "1", ":", " ", "D", "I", "S", "T", "A", "N", "C", "E", " ",
      "A", "T", "O", "M", "S", "=", "4", "0", ",", "c", "2", "\n">>
\* g1: g2: A=121\n
LnPluTwoKeys ==
    <<"g", "1", ":", " ", "g", "2", ":", " ", "A", "=", "1", "2", "1", "\n">>
\* g3: A=5\n
LnPluNoRepl == <<"g", "3", ":", " ", "A", "=", "5", "\n">>
\* tr5: TORSION ATOMS=1,8\n
LnPluTorsion ==
    <<"t", "r", "5", ":", " ", "T", "O", "R", "S", "I", "O", "N", " ", "A",
      "T", "O", "M", "S", "=", "1", ",", "8", "\n">>
\* c2: X FILE=COLVAR\n
LnPluColvar ==
    <<"c", "2", ":", " ", "X", " ", "F", "I", "L", "E", "=", "C", "O", "L",
      "V", "A", "R", "\n">>
\* PRINT ARG=xc1: STRIDE=100\n
LnPluPrint ==
    <<"P", "R", "I", "N", "T", " ", "A", "R", "G", "=", "x", "c", "1", ":",
      " ", "S", "T", "R", "I", "D", "E", "=", "1", "0", "0", "\n">>
\* UPPER_WALLS AT=12.0,12.0 EXP=2,2\n
LnPluWalls ==
    <<"U", "P", "P", "E", "R", "_", "W", "A", "L", "L", "S", " ", "A", "T",
      "=", "1", "2", ".", "0", ",", "1", "2", ".", "0", " ", "E", "X", "P",
      "=", "2", ",", "2", "\n">>

PluLineMenu ==
    {LnPluCom, LnPluRange, LnPluDist, LnPluTwoKeys, LnPluNoRepl,
     LnPluTorsion, LnPluColvar, LnPluPrint, LnPluWalls}

\* num_updater_kwargs: not given, the documented use, and one without
\* cat_repl_dict.
KwargsMenu ==
    {None,
     Some([shift |-> ShiftDefault, cat_repl_dict |-> Some(DCgenffPtadRepls)]),
     Some([shift |-> ShiftDefault + 1, cat_repl_dict |-> None])}

\* A template of up to MaxPluLines lines; the output file is not there or is
\* left from an earlier call.
InitPlumed ==
    /\ fs \in {(PluIn :> f) : f \in SeqsUpTo(PluLineMenu, MaxPluLines)}
              \cup {(PluIn :> f) @@ (PluOut :> <<LnPluPrint, LnPluPrint, LnPluPrint>>) :
                       f \in SeqsUpTo(PluLineMenu, MaxPluLines)}
    /\ obj = [g \in ObjIds |-> None]
    /\ last = NoCall
    /\ nOps = 0
    /\ frame = NoFrame

\* update_plumed_input(n_plu_in, n_plu_out, num_updater_kwargs=..., equil=...,
\* equil_changes=...)
DoUpdatePlumedInput(n_plu_in, n_plu_out) ==
    /\ nOps < MaxOps
    /\ \E num_updater_kwargs \in KwargsMenu, equil \in BOOLEAN,
          equil_changes \in {None, Some(DEquilRepls)} :
       \E r \in {UpdatePlumedInput(fs, n_plu_in, n_plu_out, num_updater_kwargs, equil,
                                   equil_changes)} :
          /\ fs' = r.files
          /\ last' = Call("update_plumed_input", 0,
                          <<n_plu_in, n_plu_out, num_updater_kwargs, equil, equil_changes>>,
                          r.exc, None)
    /\ nOps' = nOps + 1
    /\ UNCHANGED <<obj, frame>>

NextPlumed == DoUpdatePlumedInput(PluIn, PluOut)

SpecPlumed == InitPlumed /\ [][NextPlumed]_vars

\* A line that holds one of keys as a token between white space.
HasKeyToken(line, keys) == \E i \in 1..Len(Split(line)) : Split(line)[i] \in keys

\* The line with every number that follows "=", "," or "-" replaced by the
\* string num_updater returns for it (left as it is where num_updater raises).
RECURSIVE NumbersRewritten(_, _, _)
NumbersRewritten(line, p, num_updater_kwargs) ==
    IF p > Len(line) THEN <<>>
    ELSE IF line[p] \in {"=", ",", "-"} /\ RunLen(line, p + 1, DigitSet) >= 1
    THEN With(RunLen(line, p + 1, DigitSet), LAMBDA n :
         With(IF num_updater_kwargs = None
              THEN UpdateNum(<<line[p]>>, SubSeq(line, p + 1, p + n), ShiftDefault, None)
              ELSE UpdateNum(<<line[p]>>, SubSeq(line, p + 1, p + n),
                             num_updater_kwargs[1].shift,
                             num_updater_kwargs[1].cat_repl_dict), LAMBDA r :
             (IF r.exc = NoExc THEN r.ret[1] ELSE SubSeq(line, p, p + n))
               \o NumbersRewritten(line, p + 1 + n, num_updater_kwargs)))
    ELSE <<line[p]>> \o NumbersRewritten(line, p + 1, num_updater_kwargs)

\* num_updater returns a string for every number of the line.
AllNumbersUpdate(line, num_updater_kwargs) ==
    \A p \in 1..Len(line) :
        (line[p] \in {"=", ",", "-"} /\ RunLen(line, p + 1, DigitSet) >= 1)
          => UpdateNum(<<line[p]>>, SubSeq(line, p + 1, p + RunLen(line, p + 1, DigitSet)),
                       num_updater_kwargs[1].shift,
                       num_updater_kwargs[1].cat_repl_dict).exc = NoExc

\* The lines the output is to hold for the lines of a template, from line i on.
RECURSIVE PlumedExpected(_, _, _)
PlumedExpected(lines, i, num_updater_kwargs) ==
    IF i > Len(lines) THEN <<>>
    ELSE (IF HasKeyToken(lines[i], CLineKeywords)
          THEN <<NumbersRewritten(lines[i], 1, num_updater_kwargs)>>
          ELSE IF HasKeyToken(lines[i], DLineKeywords) THEN <<>>
          ELSE <<lines[i]>>)
           \o PlumedExpected(lines, i + 1, num_updater_kwargs)

\* C23: when update_plumed_input with equil=False returns, n_plu_out holds
\* the lines of n_plu_in in their order, a line with a change keyword as a
\* token with its numbers rewritten, a line with a delete keyword and no
\* change keyword left out, every other line as it is; n_plu_in is as it was.
C23_PlumedLines ==
    [][(/\ nOps' = nOps + 1
        /\ last'.op = "update_plumed_input"
        /\ last'.args[4] = FALSE
        /\ last'.exc = NoExc)
         => /\ fs'[PluOut] = PlumedExpected(fs[PluIn], 1, last'.args[3])
            /\ fs'[PluIn] = fs[PluIn]]_vars

\* C24: when num_updater_kwargs is given and num_updater returns a string for
\* every number of the change-keyword lines, update_plumed_input (equil=False)
\* returns without an exception and the change-keyword lines of the output
\* are those of the template with each such number replaced by that string.
C24_KwargsRewrite ==
    [][(/\ nOps' = nOps + 1
        /\ last'.op = "update_plumed_input"
        /\ last'.args[4] = FALSE
        /\ last'.args[3] # None
        /\ \A i \in 1..Len(fs[PluIn]) :
              HasKeyToken(fs[PluIn][i], CLineKeywords)
                => AllNumbersUpdate(fs[PluIn][i], last'.args[3]))
         => /\ last'.exc = NoExc
            /\ SelectSeq(fs'[PluOut], LAMBDA line : HasKeyToken(line, CLineKeywords))
                 = SelectSeq(PlumedExpected(fs[PluIn], 1, last'.args[3]),
                             LAMBDA line : HasKeyToken(line, CLineKeywords))]_vars

(***************************************************************************)
(* SGE submission scripts: make_gromacs_sub_script.  An argument is None,  *)
(* a number, a str or a bool; tpn is a positive number or None.            *)
(***************************************************************************)
PyBool(b) == <<"bool", b>>

\* "{}".format(v)
PyFormat(v) ==
    IF v[1] = "num" THEN DigitsOf(v[2])
    ELSE IF v[1] = "str" THEN v[2]
    ELSE IF v[2] THEN <<"T", "r", "u", "e">> ELSE <<"F", "a", "l", "s", "e">>

\* #$ -
SgePrefix == <<"#", "$", " ", "-">>
\* _make_sge_line(key, arg): "#$ -{} {}".format(key, arg)
MakeSgeLine(key, arg) == SgePrefix \o key \o <<" ">> \o arg

\* #!/bin/bash -l\n
LnShebang ==
    <<"#", "!", "/", "b", "i", "n", "/", "b", "a", "s", "h", " ", "-", "l",
      "\n">>
\* h_rt=
HrtWord == <<"h", "_", "r", "t", "=">>
\* mpi_
MpiWord == <<"m", "p", "i", "_">>
\* _tasks_per_node 
TasksWord ==
    <<"_", "t", "a", "s", "k", "s", "_", "p", "e", "r", "_", "n", "o", "d",
      "e", " ">>

\* _get_sge_basic_lines(cores, log, name, time, tpn): [exc, lines]
GetSgeBasicLines(cores, log, name, time, tpn) ==
    With(<<LnShebang>>
           \o (IF time # None THEN <<MakeSgeLine(<<"l">>, HrtWord \o PyFormat(time))>>
               ELSE <<>>)
           \o (IF name # None THEN <<MakeSgeLine(<<"N">>, PyFormat(name))>> ELSE <<>>)
           \o (IF log # None THEN <<MakeSgeLine(<<"o">>, PyFormat(log))>> ELSE <<>>),
         LAMBDA lines :
    IF tpn # None /\ cores # None
    THEN IF cores[2] % tpn[2] # 0
         THEN [exc |-> Exc("ValueError", "cores must be a multiple of tpn", <<>>),
               lines |-> <<>>]
         ELSE [exc |-> NoExc,
               lines |-> Append(lines,
                                MakeSgeLine(<<"p", "e">>,
                                            MpiWord \o PyFormat(tpn) \o TasksWord
                                              \o PyFormat(cores)))]
    ELSE [exc |-> NoExc, lines |-> lines])

\* mpirun -n $NSIMS --map-by node -x OMP_NUM_THREADS mdrun_mpi 
MdrunWord ==
    <<"m", "p", "i", "r", "u", "n", " ", "-", "n", " ", "$", "N", "S", "I",
      "M", "S", " ", "-", "-", "m", "a", "p", "-", "b", "y", " ", "n", "o",
      "d", "e", " ", "-", "x", " ", "O", "M", "P", "_", "N", "U", "M", "_",
      "T", "H", "R", "E", "A", "D", "S", " ", "m", "d", "r", "u", "n", "_",
      "m", "p", "i", " ">>
\* -s 
OptS == <<"-", "s", " ">>
\* -deffnm 
OptDeffnm == <<"-", "d", "e", "f", "f", "n", "m", " ">>
\* -plumed 
OptPlumed == <<"-", "p", "l", "u", "m", "e", "d", " ">>
\* -multi 
OptMulti == <<"-", "m", "u", "l", "t", "i", " ">>
\* -replex 
OptReplex == <<"-", "r", "e", "p", "l", "e", "x", " ">>
\* -cpi 
OptCpi == <<"-", "c", "p", "i", " ">>

\* "-opt {} ".format(v) when v is not None
MdrunOpt(opt, v) == IF v # None THEN opt \o PyFormat(v) \o <<" ">> ELSE <<>>

\* _get_mdrun_line(checkpoint, deffnm, multi, nsims, other_mdrun, plumed,
\* replex, tpr), other_mdrun a str or None
GetMdrunLine(checkpoint, deffnm, multi, nsims, other_mdrun, plumed, replex, tpr) ==
    MdrunWord
      \o MdrunOpt(OptS, tpr)
      \o MdrunOpt(OptDeffnm, deffnm)
      \o MdrunOpt(OptPlumed, plumed)
      \o MdrunOpt(OptMulti, IF multi = PyBool(TRUE) THEN nsims ELSE multi)
      \o MdrunOpt(OptReplex, replex)
      \o MdrunOpt(OptCpi, checkpoint)
      \o (IF other_mdrun # None THEN other_mdrun[2] ELSE <<>>)

\* \nexport MPI_COMPILER='pgi'\n
LnExportMpi ==
    <<"\n", "e", "x", "p", "o", "r", "t", " ", "M", "P", "I", "_", "C",
      "O", "M", "P", "I", "L", "E", "R", "=", "'", "p", "g", "i", "'", "\n">>
\* export NSIMS=
ExportNsims ==
    <<"e", "x", "p", "o", "r", "t", " ", "N", "S", "I", "M", "S", "=">>
\* export OMP_NUM_THREADS=$(($NSLOTS/$NSIMS))\n
LnExportOmp ==
    <<"e", "x", "p", "o", "r", "t", " ", "O", "M", "P", "_", "N", "U", "M",
      "_", "T", "H", "R", "E", "A", "D", "S", "=", "$", "(", "(", "$", "N",
      "S", "L", "O", "T", "S", "/", "$", "N", "S", "I", "M", "S", ")", ")",
      "\n">>

\* The lines make_gromacs_sub_script hands to writelines, each with the "\n"
\* added to it.
SubScriptLines(sge_lines, a) ==
    With(sge_lines
           \o <<LnExportMpi,
                ExportNsims \o PyFormat(a.nsims) \o <<"\n">>,
                LnExportOmp,
                GetMdrunLine(a.checkpoint, a.deffnm, a.multi, a.nsims, a.other_mdrun,
                             a.plumed, a.replex, a.tpr),
                <<"\n">>>>, LAMBDA lines :
        [i \in 1..Len(lines) |-> lines[i] \o <<"\n">>])

\* A make_gromacs_sub_script that opens the file for writing ahead of
\* _get_sge_basic_lines.
MakeGromacsSubScriptOpensFirst(files, filename, a) ==
    IF filename \in DOMAIN files /\ ~a.overwrite
    THEN [exc |-> Exc("FileExistsError", "already exists", filename), files |-> files,
          ret |-> None]
    ELSE With(GetSgeBasicLines(a.cores, a.log, a.name, a.time, a.tpn), LAMBDA sge :
        IF sge.exc # NoExc
        THEN [exc |-> sge.exc, files |-> (filename :> <<>>) @@ files, ret |-> None]
        ELSE [exc |-> NoExc,
              files |-> (filename :> Join(SubScriptLines(sge.lines, a)))
                          @@ files,
              ret |-> Some(filename)])

\* make_gromacs_sub_script(filename, **a): [exc, files, ret].  A file is the
\* sequence of its characters here.  OSError(errno.EEXIST, ...) makes a
\* FileExistsError, the subclass of OSError for that errno.
MakeGromacsSubScript(files, filename, a) ==
    IF filename \in DOMAIN files /\ ~a.overwrite
    THEN [exc |-> Exc("FileExistsError", "already exists", filename), files |-> files,
          ret |-> None]
    ELSE With(GetSgeBasicLines(a.cores, a.log, a.name, a.time, a.tpn), LAMBDA sge :
        IF sge.exc # NoExc THEN [exc |-> sge.exc, files |-> files, ret |-> None]
        ELSE [exc |-> NoExc,
              files |-> (filename :> Join(SubScriptLines(sge.lines, a)))
                          @@ files,
              ret |-> Some(filename)])

SubPath == "gromacs.sub"

\* #!/bin/sh\n
LnOldScript == <<"#", "!", "/", "b", "i", "n", "/", "s", "h", "\n">>
\* 24:00:00
TimeDefault == <<"2", "4", ":", "0", "0", ":", "0", "0">>
\* error.log
LogDefault == <<"e", "r", "r", "o", "r", ".", "l", "o", "g">>
\* pt-run
JobName == <<"p", "t", "-", "r", "u", "n">>
\* TOPO/npt
TprBase == <<"T", "O", "P", "O", "/", "n", "p", "t">>
\* plumed.dat
PlumedDat == <<"p", "l", "u", "m", "e", "d", ".", "d", "a", "t">>
\* -v
OtherMdrun == <<"-", "v">>

\* The arguments next to tpn, cores, multi and overwrite: the defaults, or
\* every option given.
SubArgsMenu ==
    {[name |-> None, time |-> PyStr(TimeDefault), nsims |-> PyNum(1), tpr |-> None,
      deffnm |-> None, plumed |-> None, replex |-> None, checkpoint |-> None,
      other_mdrun |-> None, log |-> PyStr(LogDefault)],
     [name |-> PyStr(JobName), time |-> None, nsims |-> PyNum(4), tpr |-> PyStr(TprBase),
      deffnm |-> PyStr(TprBase), plumed |-> PyStr(PlumedDat), replex |-> PyNum(500),
      checkpoint |-> PyStr(TprBase), other_mdrun |-> PyStr(OtherMdrun), log |-> None]}
TpnMenu == {None, PyNum(16), PyNum(28)}
CoresMenu == {None, PyNum(16), PyNum(32), PyNum(56)}
MultiMenu == {None, PyBool(TRUE), PyNum(2)}

\* The script is not there, or is there from an earlier run.
InitSub ==
    /\ fs \in {<<>>, (SubPath :> LnOldScript)}
    /\ obj = [g \in ObjIds |-> None]
    /\ last = NoCall
    /\ nOps = 0
    /\ frame = NoFrame

\* make_gromacs_sub_script(filename, ...)
DoMakeGromacsSubScript(filename) ==
    /\ nOps < MaxOps
    /\ \E rest \in SubArgsMenu, tpn \in TpnMenu, cores \in CoresMenu, multi \in MultiMenu,
          overwrite \in BOOLEAN :
       \E a \in {[k \in DOMAIN rest \cup {"tpn", "cores", "multi", "overwrite"} |->
                    IF k = "tpn" THEN tpn
                    ELSE IF k = "cores" THEN cores
                    ELSE IF k = "multi" THEN multi
                    ELSE IF k = "overwrite" THEN overwrite
                    ELSE rest[k]]} :
       \E r \in {MakeGromacsSubScript(fs, filename, a)} :
          /\ fs' = r.files
          /\ last' = Call("make_gromacs_sub_script", 0, <<filename, a>>, r.exc, r.ret)
    /\ nOps' = nOps + 1
    /\ UNCHANGED <<obj, frame>>

NextSub == DoMakeGromacsSubScript(SubPath)

SpecSub == InitSub /\ [][NextSub]_vars

\* OSError and the subclass of it that is raised here.
OSErrorTypes == {"OSError", "FileExistsError"}

=============================================================================
